---------------------------- MODULE Spec2Model ----------------------------
(***************************************************************************)
(* Verification model of voxara's scan engine and remote-control hub       *)
(* (src/src-tauri/src/main.rs).                                            *)
(*                                                                         *)
(* The module holds these state machines over one set of variables:        *)
(*   Spec      the RemoteHub: accept loop, per-connection reader and       *)
(*             writer threads, request dispatch, the scan slot and the     *)
(*             scan threads (the walk abstracted to its entry count);      *)
(*   SpecWalk  one run of run_scan over a directory tree: filtering,       *)
(*             aggregation, snapshots, progress and terminal events;       *)
(*   SpecLine  handle_client's read loop over read_secure_line on a byte   *)
(*             stream that arrives in segments;                            *)
(*   SpecApp   the desktop application's scan_path and cancel_scan with    *)
(*             the registry of cancellation flags and the scan tasks;      *)
(*   SpecFilter  build_filter_config and one decision of the compiled      *)
(*             filter; SpecTop, update_largest_files over accepted files;  *)
(*   SpecServe, FairSpecShutdown  the hub in two small scenarios: a        *)
(*             connection that misbehaves, and a protocol shutdown;        *)
(*   SpecClient  the outbound client: remote_connect, remote_disconnect,   *)
(*             remote_send and the threads of its connections.             *)
(* Threads are interleaved at their accesses to shared state (atomics,     *)
(* mutex-protected fields, channels, sockets); code between two such       *)
(* accesses is local to the thread and belongs to the action of the        *)
(* access that precedes it.                                                *)
(***************************************************************************)
EXTENDS Integers, Sequences, FiniteSets, TLC

(***************************************************************************)
(* Bounds of the model.                                                    *)
(***************************************************************************)
\* connections that may be opened to the hub
MaxConns == 3
\* request lines the hub reads in one behaviour (over all connections)
MaxRequests == 3
\* scans started in one behaviour
MaxScans == 2
\* entries the abstract walk of a hub scan yields
MaxEntries == 2
\* scans the windows of the desktop application start in one behaviour
MaxLocalScans == 3
\* outbound connections the desktop application opens in one behaviour
MaxLinks == 2
\* commands of the outbound client invoked in one behaviour
MaxCalls == 3

(***************************************************************************)
(* Program constants.                                                      *)
(***************************************************************************)
\* main.rs:14 (50 in the source; scaled to keep the registry small)
MAX_CONNECTIONS == 2

Conns == 1..MaxConns
ScanIds == 1..MaxScans

\* Option<T>: None is the empty tuple, Some(x) the one-element tuple.
None == << >>
Some(x) == << x >>

\* the token the hub may be configured with, and what a request may carry
HubTokens == {None, Some("secret")}
\* a request may carry no token, the hub's token or another one (which
\* differs from a missing token only when the hub has a token to compare)
Tokens(expected) ==
    IF expected = None THEN {None, Some("secret")}
    ELSE {None, Some("secret"), Some("wrong")}
\* the id a client gives its requests: each client uses its own
ReqId(c) == Some(c)
Actions == {"ping", "list", "disk", "read", "scan", "cancel", "shutdown"}

NoReq == [action |-> "none", token |-> None, id |-> None, path |-> "exists",
          options |-> "valid", flag |-> 0]

\* The requests a client may send (RemoteEnvelope): the path's existence and
\* the validity of the scan options are what the scan handler branches on.
Requests(c, expected, actions) ==
    [action : actions \ {"scan"}, token : Tokens(expected), id : {ReqId(c)},
     path : {"exists"}, options : {"valid"}, flag : {0}]
    \cup
    [action : actions \cap {"scan"}, token : Tokens(expected), id : {ReqId(c)},
     path : {"exists", "missing"}, options : {"valid", "invalid"}, flag : {0}]

\* What the hub's configuration and environment are in one behaviour: the
\* token and the headless flag the hub is started with, the connections
\* the clients open (the first `warm` of them are already served when the
\* behaviour starts), the lines they send (the request actions,
\* "invalid_json" for a line that is no request, "bad_line" for a line
\* read_secure_line refuses), whether requests may carry a missing or wrong
\* token, and whether clients close connections and system calls fail.
Lines == Actions \cup {"invalid_json", "bad_line"}
Scenarios ==
    { \* clients that scan and cancel
      [token |-> None, headless |-> FALSE, conns |-> 2, warm |-> 2,
       reqs |-> MaxRequests, lines |-> {"scan", "cancel"},
       badtoken |-> FALSE, faults |-> FALSE] }
    \cup
    \* a client that sends every kind of line, with and without the token
    { [token |-> t, headless |-> h, conns |-> 1, warm |-> 0,
       reqs |-> MaxRequests - 1, lines |-> Lines,
       badtoken |-> TRUE, faults |-> FALSE] :
         t \in HubTokens, h \in BOOLEAN }
    \cup
    { \* clients that connect and disconnect
      [token |-> None, headless |-> FALSE, conns |-> MaxConns, warm |-> 0,
       reqs |-> 0, lines |-> {}, badtoken |-> FALSE, faults |-> TRUE],
      \* clients that start a scan and go away
      [token |-> None, headless |-> FALSE, conns |-> 2, warm |-> 0,
       reqs |-> MaxRequests - 2, lines |-> {"scan"},
       badtoken |-> FALSE, faults |-> TRUE] }

VARIABLES
    \* ---- RemoteHub (struct RemoteHub, main.rs:195-201)
    token,          \* hub.token : Option<String>
    headless,       \* the headless flag handed to handle_client
    clients,        \* hub.clients : the senders registered, by connection
    scan_active,    \* hub.scan_active : AtomicBool
    scan_cancel,    \* hub.scan_cancel : Option<Arc<AtomicBool>>, by scan
    cancel_flag,    \* the cancellation flag each scan owns
    shutdown_sig,   \* messages waiting in the shutdown channel
    accept_pc,      \* the accept loop: "running" or "exited"
    \* ---- connections
    conn,           \* where each connection's reader thread stands
    cur,            \* the request a reader is handling
    queue,          \* each connection's outbound mpsc channel
    rx,             \* whether the channel's receiver (the writer) lives
    peer_closed,    \* whether the client closed its end
    nreq,           \* request lines read so far
    limits,         \* the scenario of this behaviour (one of Scenarios)
    \* ---- scan threads
    scan_pc,        \* where each scan thread stands
    scan_todo,      \* entries its walk has yet to yield
    scan_id         \* the request id its events carry

hubVars == << token, headless, clients, scan_active, scan_cancel, cancel_flag,
              shutdown_sig, accept_pc, conn, cur, queue, rx, peer_closed,
              nreq, limits, scan_pc, scan_todo, scan_id >>

VARIABLES
    \* ---- one run of run_scan (main.rs:487-598)
    fs,             \* the directory tree on disk: the entries below the root
    scan_args,      \* run_scan's arguments: root, config, scan_id
    cancel,         \* the run's cancel_flag : Arc<AtomicBool>
    walk_pc,        \* where the run stands: "next", "body" or "returned"
    unvisited,      \* entries the walk has not yielded yet
    dir_stack,      \* the directories the depth-first walk is inside of
    entry,          \* the entry the loop body is working on
    stats,          \* HashMap<PathBuf, NodeStats>
    children,       \* HashMap<PathBuf, Vec<PathBuf>>
    files_by_parent,\* HashMap<PathBuf, Vec<ScanFile>>
    largest_files,  \* Vec<ScanFile>
    last_emitted_bytes,
    processed,
    sleeps,         \* how often the throttle made the thread sleep
    events,         \* what the emitter received, in order
    result,         \* what run_scan returned: "none", "Ok" or "Err"
    cancel_req      \* history: when cancellation was requested, if it was

walkVars == << fs, scan_args, cancel, walk_pc, unvisited, dir_stack, entry,
               stats, children, files_by_parent, largest_files,
               last_emitted_bytes, processed, sleeps, events, result,
               cancel_req >>

VARIABLES
    \* ---- one connection's read loop (handle_client, read_secure_line)
    client_lines,   \* the lines the client sends in this behaviour
    to_send,        \* the bytes of them the client has yet to send
    wire,           \* bytes sent that the socket still holds
    eof,            \* the client has closed its end
    buf,            \* BufReader's buffer: bytes read and not yet consumed
    line,           \* read_secure_line's local `line`
    total_read,     \* read_secure_line's local `total_read`
    read_pc,        \* handle_client's read loop: "reading" or "closed"
    delivered,      \* the lines handed to handle_remote_line, in order
    read_errors     \* the errors that ended the read loop

lineVars == << client_lines, to_send, wire, eof, buf, line, total_read,
               read_pc, delivered, read_errors >>

VARIABLES
    \* ---- the desktop application (scan_path, cancel_scan, the scan tasks)
    cancellations,  \* ScanCancellation: window label -> the flag registered
    task_flag,      \* the cancel_flag each call of scan_path creates
    task_pc,        \* where each scan task stands
    task_label,     \* the window label each scan task was started for
    task_todo,      \* items its walk has yet to yield
    task_event,     \* the terminal event its run_scan emitted
    app_call,       \* the last command a window invoked, and its result
    app_limits      \* the windows of this behaviour and the scans they start

appVars == << cancellations, task_flag, task_pc, task_label, task_todo,
              task_event, app_call, app_limits >>

VARIABLES
    \* ---- one filter, compiled and applied
    raw_filters,    \* the ScanFilters of the request
    filter_config,  \* what build_filter_config returned for them, if called
    filter_call     \* the last decision asked of the compiled filter

filterVars == << raw_filters, filter_config, filter_call >>

VARIABLES
    \* ---- update_largest_files over the files a scan accepts
    accepted        \* history: the files handed to update_largest_files

VARIABLES
    \* ---- the outbound client (remote_connect, remote_send, spawn_remote_client)
    remote_client,  \* RemoteClientState: Mutex<Option<RemoteClientHandle>>
    links,          \* the outbound connections: handle, threads, peer
    remote_call,    \* the command in progress, between its blocking calls
    status_events,  \* history: the remote-status events emitted
    send_result,    \* the payload and the result of the last remote_send
    calls           \* commands invoked so far

clientVars == << remote_client, links, remote_call, status_events,
                 send_result, calls >>

\* the variables of the machines that are defined after the read loop
moreVars == << appVars, filterVars, accepted, clientVars >>

vars == << hubVars, walkVars, lineVars, moreVars >>

\* the hub at rest, for the behaviours of the other two machines
HubIdle ==
    /\ limits = [token |-> None, headless |-> FALSE, conns |-> 0, warm |-> 0,
                 reqs |-> 0, lines |-> {}, badtoken |-> FALSE,
                 faults |-> FALSE]
    /\ token = None
    /\ headless = FALSE
    /\ clients = << >>
    /\ scan_active = FALSE
    /\ scan_cancel = None
    /\ cancel_flag = [s \in ScanIds |-> FALSE]
    /\ shutdown_sig = 0
    /\ accept_pc = "exited"
    /\ conn = [c \in Conns |-> "none"]
    /\ cur = [c \in Conns |-> NoReq]
    /\ queue = [c \in Conns |-> << >>]
    /\ rx = [c \in Conns |-> FALSE]
    /\ peer_closed = [c \in Conns |-> FALSE]
    /\ nreq = 0
    /\ scan_pc = [s \in ScanIds |-> "none"]
    /\ scan_todo = [s \in ScanIds |-> 0]
    /\ scan_id = [s \in ScanIds |-> None]

\* no run of run_scan
WalkIdle ==
    /\ fs = {}
    /\ scan_args = None
    /\ cancel = FALSE
    /\ walk_pc = "returned"
    /\ unvisited = {}
    /\ dir_stack = << >>
    /\ entry = None
    /\ stats = << >>
    /\ children = << >>
    /\ files_by_parent = << >>
    /\ largest_files = << >>
    /\ last_emitted_bytes = 0
    /\ processed = 0
    /\ sleeps = 0
    /\ events = << >>
    /\ result = "none"
    /\ cancel_req = None

\* no connection being read
LineIdle ==
    /\ client_lines = << >>
    /\ to_send = << >>
    /\ wire = << >>
    /\ eof = FALSE
    /\ buf = << >>
    /\ line = << >>
    /\ total_read = 0
    /\ read_pc = "closed"
    /\ delivered = << >>
    /\ read_errors = << >>

\* the windows of the desktop application (window.label()) and the scans
\* they start
Labels == {"main", "second"}
LocalScans == 1..MaxLocalScans
NoCall == [cmd |-> "none"]

\* no window has invoked a command
AppIdle ==
    /\ cancellations = << >>
    /\ task_flag = [s \in LocalScans |-> FALSE]
    /\ task_pc = [s \in LocalScans |-> "none"]
    /\ task_label = [s \in LocalScans |-> None]
    /\ task_todo = [s \in LocalScans |-> 0]
    /\ task_event = [s \in LocalScans |-> "none"]
    /\ app_call = NoCall
    /\ app_limits = [labels |-> {}, scans |-> 0]

\* no filter under study
FilterIdle ==
    /\ raw_filters = None
    /\ filter_config = None
    /\ filter_call = None

\* The outbound client before its first command: main's setup registers
\* RemoteClientState(Mutex::new(None)).
Links == 1..MaxLinks

\* a connection that was not opened yet
NoLink ==
    [address |-> None, token |-> None, peer |-> "none", sender |-> FALSE,
     shutdown |-> FALSE, reader |-> "none", writer |-> "none",
     queue |-> << >>, written |-> << >>, left_by |-> None]

\* no command of the outbound client in progress
NoRemoteCall == [op |-> "none", pc |-> "none", link |-> None, existing |-> None]

ClientIdle ==
    /\ remote_client = None
    /\ links = [k \in Links |-> NoLink]
    /\ remote_call = NoRemoteCall
    /\ status_events = << >>
    /\ send_result = None
    /\ calls = 0

\* the machines that are defined after the read loop, at rest
MoreIdle == AppIdle /\ FilterIdle /\ accepted = << >> /\ ClientIdle

(***************************************************************************)
(* Messages and channels.                                                  *)
(***************************************************************************)
Msg(event, id, message) == [event |-> event, id |-> id, message |-> message]

\* send_remote_error: {"event": "error", "id": id, "message": message}
send_remote_error(id, message) == Msg("error", id, message)

\* mpsc::Sender::send on connection c's channel: the message is queued while
\* the receiver lives, and the send fails (the result is ignored) once the
\* receiver is dropped.
send_remote_event(q, c, m) ==
    IF rx[c] THEN [q EXCEPT ![c] = Append(@, m)] ELSE q

\* a validate_token that lets a request without a token through
validate_token_missing_ok(expected, tok) ==
    IF expected = None THEN TRUE ELSE tok = expected \/ tok = None

\* RemoteHub::validate_token
validate_token(expected, tok) ==
    IF expected = None THEN TRUE ELSE tok = expected

\* RemoteHub::broadcast: every registered sender is sent the message, and
\* the senders whose send fails are dropped from the list.
\* a broadcast that keeps the senders whose send failed
broadcast_clients_keep_all == clients

broadcast_clients == SelectSeq(clients, LAMBDA c : rx[c])
InClients(c) == \E i \in 1..Len(clients) : clients[i] = c

\* a broadcast whose message overtakes what the channel already holds
broadcast_queue_front(m) ==
    [c \in Conns |-> IF InClients(c) /\ rx[c] THEN << m >> \o queue[c]
                     ELSE queue[c]]

broadcast_queue(m) ==
    [c \in Conns |-> IF InClients(c) /\ rx[c] THEN Append(queue[c], m)
                     ELSE queue[c]]

\* emit_to_remote: the wire form of a scan event, broadcast to the hub
emit_to_remote(event, id) ==
    CASE event = "Progress"  -> Msg("scan-progress", id, "")
      [] event = "Complete"  -> Msg("scan-complete", id, "")
      [] event = "Error"     -> Msg("scan-error", id, "")
      [] event = "Cancelled" -> Msg("scan-cancelled", id, "Scan cancelled")

(***************************************************************************)
(* Initial state: RemoteHub::new and start_remote_server before the        *)
(* accept thread's first iteration.                                        *)
(***************************************************************************)
HubStarted ==
    /\ token = limits.token
    /\ headless = limits.headless
    /\ clients = [i \in 1..limits.warm |-> i]
    /\ scan_active = FALSE
    /\ scan_cancel = None
    /\ cancel_flag = [s \in ScanIds |-> FALSE]
    /\ shutdown_sig = 0
    /\ accept_pc = "running"
    /\ conn = [c \in Conns |-> IF c <= limits.warm THEN "reading" ELSE "none"]
    /\ cur = [c \in Conns |-> NoReq]
    /\ queue = [c \in Conns |-> << >>]
    /\ rx = [c \in Conns |-> c <= limits.warm]
    /\ peer_closed = [c \in Conns |-> FALSE]
    /\ nreq = 0
    /\ scan_pc = [s \in ScanIds |-> "none"]
    /\ scan_todo = [s \in ScanIds |-> 0]
    /\ scan_id = [s \in ScanIds |-> None]

HubInit == limits \in Scenarios /\ HubStarted

acceptVars == << shutdown_sig, accept_pc >>
slotVars == << scan_active, scan_cancel, cancel_flag >>
scanVars == << scan_pc, scan_todo, scan_id >>
\* what no step of the hub changes: its configuration, and the variables of
\* the other two machines
cfgVars == << token, headless, limits, walkVars, lineVars, moreVars >>
chanVars == << queue, rx >>

(***************************************************************************)
(* The client side of a connection.                                        *)
(***************************************************************************)
\* a client connects: the connection waits in the listener's backlog
ClientConnect(c) ==
    /\ conn[c] = "none"
    /\ c <= limits.conns
    /\ \A d \in 1..(c - 1) : conn[d] # "none"
    /\ accept_pc # "exited"
    /\ conn' = [conn EXCEPT ![c] = "pending"]
    /\ UNCHANGED << cfgVars, clients, slotVars, acceptVars, cur, chanVars,
                    peer_closed, nreq, scanVars >>

\* a client closes its end of the connection
ClientClose(c) ==
    /\ limits.faults
    /\ conn[c] \notin {"none", "rejected"}
    /\ ~peer_closed[c]
    /\ peer_closed' = [peer_closed EXCEPT ![c] = TRUE]
    /\ UNCHANGED << cfgVars, clients, slotVars, acceptVars, conn, cur,
                    chanVars, nreq, scanVars >>

(***************************************************************************)
(* start_remote_server: the accept thread.                                 *)
(***************************************************************************)
\* One iteration of the loop is one action: shutdown_rx.try_recv() and then
\* listener.accept(). A signal sent between the two is seen at the next
\* iteration, as if it had been sent after the accept.

\* shutdown_rx.try_recv().is_ok(): break
AcceptShutdown ==
    /\ accept_pc = "running"
    /\ shutdown_sig > 0
    /\ accept_pc' = "exited"
    /\ shutdown_sig' = shutdown_sig - 1
    /\ UNCHANGED << cfgVars, clients, slotVars, conn, cur, chanVars,
                    peer_closed, nreq, scanVars >>

\* listener.accept() returned a stream: the registry's length is read under
\* the lock, and the handler thread is spawned after the lock is released.
AcceptConn(c) ==
    /\ accept_pc = "running"
    /\ shutdown_sig = 0
    /\ conn[c] = "pending"
    /\ conn' = [conn EXCEPT ![c] = IF Len(clients) >= MAX_CONNECTIONS
                                     THEN "rejected" ELSE "spawned"]
    /\ UNCHANGED << cfgVars, clients, slotVars, acceptVars, cur, chanVars,
                    peer_closed, nreq, scanVars >>

\* listener.accept() would block: sleep 50ms and poll again
AcceptWouldBlock ==
    /\ accept_pc = "running"
    /\ shutdown_sig = 0
    /\ \A c \in Conns : conn[c] # "pending"
    /\ UNCHANGED << cfgVars, clients, slotVars, acceptVars, conn, cur,
                    chanVars, peer_closed, nreq, scanVars >>

\* listener.accept() failed with another error: break
AcceptError ==
    /\ limits.faults
    /\ accept_pc = "running"
    /\ shutdown_sig = 0
    /\ accept_pc' = "exited"
    /\ UNCHANGED << cfgVars, clients, slotVars, shutdown_sig, conn, cur,
                    chanVars, peer_closed, nreq, scanVars >>

(***************************************************************************)
(* handle_client: the reader thread of one connection.                     *)
(***************************************************************************)
\* hub.register_client(sender.clone()), then the writer thread is spawned
\* on a clone of the stream
RegisterClient(c) ==
    /\ conn[c] = "spawned"
    /\ clients' = Append(clients, c)
    /\ rx' = [rx EXCEPT ![c] = TRUE]
    /\ conn' = [conn EXCEPT ![c] = "reading"]
    /\ UNCHANGED << cfgVars, slotVars, acceptVars, cur, queue, peer_closed,
                    nreq, scanVars >>

\* stream.try_clone() failed: the sender stays registered, the receiver is
\* dropped with the handler's return and no thread serves the connection
RegisterCloneFailed(c) ==
    /\ limits.faults
    /\ conn[c] = "spawned"
    /\ clients' = Append(clients, c)
    /\ conn' = [conn EXCEPT ![c] = "closed"]
    /\ UNCHANGED << cfgVars, slotVars, acceptVars, cur, chanVars, peer_closed,
                    nreq, scanVars >>

\* read_secure_line returned WouldBlock / TimedOut (the 200ms read timeout),
\* or a line that is empty after trim(): continue
ReadTimeoutOrBlank(c) ==
    /\ conn[c] = "reading"
    /\ UNCHANGED << cfgVars, clients, slotVars, acceptVars, conn, cur,
                    chanVars, peer_closed, nreq, scanVars >>

\* read_secure_line returned Ok(None): end of stream
ReadEof(c) ==
    /\ conn[c] = "reading"
    /\ peer_closed[c]
    /\ conn' = [conn EXCEPT ![c] = "closed"]
    /\ UNCHANGED << cfgVars, clients, slotVars, acceptVars, cur, chanVars,
                    peer_closed, nreq, scanVars >>

\* read_secure_line returned another error ("Line too long", invalid UTF-8,
\* a reset connection): break
ReadError(c) ==
    /\ "bad_line" \in limits.lines
    /\ conn[c] = "reading"
    /\ nreq < limits.reqs
    /\ nreq' = nreq + 1
    /\ conn' = [conn EXCEPT ![c] = "closed"]
    /\ UNCHANGED << cfgVars, clients, slotVars, acceptVars, cur, chanVars,
                    peer_closed, scanVars >>

\* a handler that reports a line that is no RemoteEnvelope to every client
ReadInvalidJson_broadcast(c) ==
    /\ "invalid_json" \in limits.lines
    /\ conn[c] = "reading"
    /\ nreq < limits.reqs
    /\ nreq' = nreq + 1
    /\ queue' = [d \in Conns |->
                   IF rx[d]
                     THEN Append(queue[d], send_remote_error(None, "invalid_json"))
                     ELSE queue[d]]
    /\ UNCHANGED << cfgVars, clients, slotVars, acceptVars, conn, cur, rx,
                    peer_closed, scanVars >>

\* handle_remote_line on a line that is no RemoteEnvelope
ReadInvalidJson(c) ==
    /\ "invalid_json" \in limits.lines
    /\ conn[c] = "reading"
    /\ nreq < limits.reqs
    /\ nreq' = nreq + 1
    /\ queue' = send_remote_event(queue, c, send_remote_error(None, "invalid_json"))
    /\ UNCHANGED << cfgVars, clients, slotVars, acceptVars, conn, cur, rx,
                    peer_closed, scanVars >>

\* the scans that have not been started yet
FreeScans == {s \in ScanIds : scan_pc[s] = "none"}
NextScan == CHOOSE s \in FreeScans : \A t \in FreeScans : s <= t
\* the model starts at most MaxScans scans: a scan request is read only
\* while a scan is left for it and for every scan request being handled
ScanBudgetLeft ==
    Cardinality(FreeScans) >
        Cardinality({c \in Conns : conn[c] = "dispatch" /\ cur[c].action = "scan"})

\* an unauthorized branch that replies without the delay
unauthorized_branch_no_delay == "auth_reply"

\* where handle_remote_line goes when validate_token fails: the 2-second
\* sleep comes first, the reply after it
unauthorized_branch == "auth_delay"

\* handle_remote_line, up to the token check: the envelope is parsed and
\* the request goes to its handler or to the unauthorized branch
ReadRequest(c, req) ==
    /\ conn[c] = "reading"
    /\ req.action = "scan" => ScanBudgetLeft
    /\ limits.badtoken \/ validate_token(token, req.token)
    /\ nreq < limits.reqs
    /\ nreq' = nreq + 1
    /\ cur' = [cur EXCEPT ![c] = req]
    /\ conn' = [conn EXCEPT ![c] = IF validate_token(token, req.token)
                                     THEN "dispatch" ELSE unauthorized_branch]
    /\ UNCHANGED << cfgVars, clients, slotVars, acceptVars, chanVars,
                    peer_closed, scanVars >>

\* thread::sleep(Duration::from_secs(2)) of the unauthorized branch
UnauthorizedDelay(c) ==
    /\ conn[c] = "auth_delay"
    /\ conn' = [conn EXCEPT ![c] = "auth_reply"]
    /\ UNCHANGED << cfgVars, clients, slotVars, acceptVars, cur, chanVars,
                    peer_closed, nreq, scanVars >>

\* send_remote_error(sender, request_id(&envelope.request), "unauthorized")
UnauthorizedReply(c) ==
    /\ conn[c] = "auth_reply"
    /\ queue' = send_remote_event(queue, c,
                    send_remote_error(cur[c].id, "unauthorized"))
    /\ conn' = [conn EXCEPT ![c] = "reading"]
    /\ cur' = [cur EXCEPT ![c] = NoReq]
    /\ UNCHANGED << cfgVars, clients, slotVars, acceptVars, rx, peer_closed,
                    nreq, scanVars >>

(***************************************************************************)
(* handle_remote_line: the action handlers.                                *)
(***************************************************************************)
\* the reply of a handler that touches no hub state, and the return to the
\* read loop
Reply(c, m) ==
    /\ queue' = send_remote_event(queue, c, m)
    /\ conn' = [conn EXCEPT ![c] = "reading"]
    /\ cur' = [cur EXCEPT ![c] = NoReq]

Dispatching(c, action) == conn[c] = "dispatch" /\ cur[c].action = action

HandlePing(c) ==
    /\ Dispatching(c, "ping")
    /\ Reply(c, Msg("pong", cur[c].id, ""))
    /\ UNCHANGED << cfgVars, clients, slotVars, acceptVars, rx, peer_closed,
                    nreq, scanVars >>

\* handle_remote_list: list-complete, or list-error with the error's text
HandleList(c) ==
    /\ Dispatching(c, "list")
    /\ \E m \in {Msg("list-complete", cur[c].id, ""),
                 Msg("list-error", cur[c].id, "path-not-found")} :
          Reply(c, m)
    /\ UNCHANGED << cfgVars, clients, slotVars, acceptVars, rx, peer_closed,
                    nreq, scanVars >>

\* handle_remote_disk: disk-info, or disk-error
HandleDisk(c) ==
    /\ Dispatching(c, "disk")
    /\ \E m \in {Msg("disk-info", cur[c].id, ""),
                 Msg("disk-error", cur[c].id, "path-not-found")} :
          Reply(c, m)
    /\ UNCHANGED << cfgVars, clients, slotVars, acceptVars, rx, peer_closed,
                    nreq, scanVars >>

\* handle_remote_read: read-complete, or the error of the failed check
HandleRead(c) ==
    /\ Dispatching(c, "read")
    /\ \E m \in {Msg("read-complete", cur[c].id, ""),
                 send_remote_error(cur[c].id, "path-not-found"),
                 send_remote_error(cur[c].id, "not-a-file"),
                 send_remote_error(cur[c].id, "file-too-large")} :
          Reply(c, m)
    /\ UNCHANGED << cfgVars, clients, slotVars, acceptVars, rx, peer_closed,
                    nreq, scanVars >>

\* a cancel_scan that finds the handle and does not store to its flag
cancel_scan_flags_not_stored == cancel_flag

\* RemoteHub::cancel_scan: the flag scan_cancel holds is set, if it holds one
cancel_scan_flags ==
    IF scan_cancel # None
      THEN [cancel_flag EXCEPT ![scan_cancel[1]] = TRUE]
      ELSE cancel_flag

HandleCancel(c) ==
    /\ Dispatching(c, "cancel")
    /\ cancel_flag' = cancel_scan_flags
    /\ Reply(c, Msg(IF scan_cancel # None THEN "cancel-requested"
                    ELSE "no-active-scan", cur[c].id, ""))
    /\ UNCHANGED << cfgVars, clients, scan_active, scan_cancel, acceptVars,
                    rx, peer_closed, nreq, scanVars >>

\* a request_shutdown that takes every send for delivered
request_shutdown_unchecked == TRUE

\* RemoteHub::request_shutdown: sender.send(()).is_ok(); the receiver lives
\* in the accept thread
request_shutdown == accept_pc # "exited"

HandleShutdown(c) ==
    /\ Dispatching(c, "shutdown")
    /\ IF ~headless
         THEN /\ Reply(c, send_remote_error(cur[c].id, "shutdown-not-allowed"))
              /\ UNCHANGED shutdown_sig
         ELSE IF request_shutdown
           THEN /\ shutdown_sig' = shutdown_sig + 1
                /\ Reply(c, Msg("shutdown", cur[c].id, ""))
           ELSE /\ Reply(c, send_remote_error(cur[c].id, "shutdown-failed"))
                /\ UNCHANGED shutdown_sig
    /\ UNCHANGED << cfgVars, clients, slotVars, accept_pc, rx, peer_closed,
                    nreq, scanVars >>

(***************************************************************************)
(* handle_remote_scan and RemoteHub::start_scan.                           *)
(***************************************************************************)
\* a start_scan that does not look at what the swap returns
scan_refusal_no_swap(req, active) ==
    IF req.path # "exists" THEN "path-not-found"
    ELSE IF req.options # "valid" THEN "invalid-options"
    ELSE ""

\* a handle_remote_scan that answers a busy hub with the wrong message
scan_refusal_wrong_message(req, active) ==
    IF req.path # "exists" THEN "path-not-found"
    ELSE IF req.options # "valid" THEN "invalid-options"
    ELSE IF active THEN "path-not-found"
    ELSE ""

\* the reply of handle_remote_scan when it starts no scan, or "" when the
\* request goes on to claim the slot: the path, then the options, then
\* scan_active.swap(true)
scan_refusal(req, active) ==
    IF req.path # "exists" THEN "path-not-found"
    ELSE IF req.options # "valid" THEN "invalid-options"
    ELSE IF active THEN "scan-in-progress"
    ELSE ""

\* handle_remote_scan up to scan_active.swap(true, SeqCst) in start_scan
HandleScan(c) ==
    /\ Dispatching(c, "scan")
    /\ LET refusal == scan_refusal(cur[c], scan_active) IN
       IF refusal # ""
         THEN /\ Reply(c, send_remote_error(cur[c].id, refusal))
              /\ UNCHANGED << scan_active, scan_pc >>
         ELSE /\ scan_active' = TRUE
              /\ scan_pc' = [scan_pc EXCEPT ![NextScan] = "claimed"]
              /\ cur' = [cur EXCEPT ![c].flag = NextScan]
              /\ conn' = [conn EXCEPT ![c] = "scan_store"]
              /\ UNCHANGED queue
    /\ UNCHANGED << cfgVars, clients, scan_cancel, cancel_flag, acceptVars,
                    rx, peer_closed, nreq, scan_todo, scan_id >>

\* the rest of start_scan (*cancel = Some(cancel_flag) under the lock), the
\* scan-started reply and the spawn of the scan thread
HandleScanStart(c) ==
    /\ conn[c] = "scan_store"
    /\ scan_cancel' = Some(cur[c].flag)
    /\ \E n \in 1..MaxEntries :
          scan_todo' = [scan_todo EXCEPT ![cur[c].flag] = n]
    /\ scan_pc' = [scan_pc EXCEPT ![cur[c].flag] = "walk"]
    /\ scan_id' = [scan_id EXCEPT ![cur[c].flag] = cur[c].id]
    /\ Reply(c, Msg("scan-started", cur[c].id, ""))
    /\ UNCHANGED << cfgVars, clients, scan_active, cancel_flag, acceptVars,
                    rx, peer_closed, nreq >>

(***************************************************************************)
(* The scan thread of handle_remote_scan: run_scan with the hub's emitter, *)
(* then finish_scan.                                                       *)
(***************************************************************************)
\* a scan thread that returns without finish_scan after a cancelled walk
after_run_scan_skips_cancelled(event) ==
    IF event = "Cancelled" THEN "done" ELSE "finish"

\* the scan thread after run_scan returned (whatever event ended the walk):
\* hub_ref.finish_scan()
after_run_scan(event) == "finish"

Emit(s, event) ==
    /\ queue' = broadcast_queue(emit_to_remote(event, scan_id[s]))
    /\ clients' = broadcast_clients

\* one turn of `for entry in walk`: the walk is exhausted and the final
\* summary is emitted, or the flag is loaded and found set, or the entry is
\* taken up
ScanNext(s) ==
    /\ scan_pc[s] = "walk"
    /\ IF scan_todo[s] = 0
         THEN /\ Emit(s, "Complete")
              /\ scan_pc' = [scan_pc EXCEPT ![s] = after_run_scan("Complete")]
              /\ UNCHANGED scan_todo
         ELSE IF cancel_flag[s]
           THEN /\ Emit(s, "Cancelled")
                /\ scan_pc' = [scan_pc EXCEPT ![s] =
                                  after_run_scan("Cancelled")]
                /\ UNCHANGED scan_todo
           ELSE /\ scan_pc' = [scan_pc EXCEPT ![s] = "entry"]
                /\ scan_todo' = [scan_todo EXCEPT ![s] = @ - 1]
                /\ UNCHANGED << queue, clients >>
    /\ UNCHANGED << cfgVars, slotVars, acceptVars, conn, cur, rx,
                    peer_closed, nreq, scan_id >>

\* the body of the loop for one entry; should_emit_progress depends on the
\* entry count and on the clock, so a progress event may or may not follow
ScanEntry(s) ==
    /\ scan_pc[s] = "entry"
    /\ \/ Emit(s, "Progress")
       \/ UNCHANGED << queue, clients >>
    /\ scan_pc' = [scan_pc EXCEPT ![s] = "walk"]
    /\ UNCHANGED << cfgVars, slotVars, acceptVars, conn, cur, rx,
                    peer_closed, nreq, scan_todo, scan_id >>

\* finish_scan: self.scan_active.store(false, SeqCst)
FinishScanStore(s) ==
    /\ scan_pc[s] = "finish"
    /\ scan_active' = FALSE
    /\ scan_pc' = [scan_pc EXCEPT ![s] = "clear"]
    /\ UNCHANGED << cfgVars, clients, scan_cancel, cancel_flag, acceptVars,
                    conn, cur, chanVars, peer_closed, nreq, scan_todo,
                    scan_id >>

\* finish_scan: *cancel = None under the lock
FinishScanClear(s) ==
    /\ scan_pc[s] = "clear"
    /\ scan_cancel' = None
    /\ scan_pc' = [scan_pc EXCEPT ![s] = "done"]
    /\ UNCHANGED << cfgVars, clients, scan_active, cancel_flag, acceptVars,
                    conn, cur, chanVars, peer_closed, nreq, scan_todo,
                    scan_id >>

(***************************************************************************)
(* write_remote_lines: the writer thread of one connection.                *)
(***************************************************************************)
\* the next line of the channel is written and flushed
WriteLine(c) ==
    /\ rx[c]
    /\ queue[c] # << >>
    /\ queue' = [queue EXCEPT ![c] = Tail(@)]
    /\ UNCHANGED << cfgVars, clients, slotVars, acceptVars, conn, cur, rx,
                    peer_closed, nreq, scanVars >>

\* the write or the flush fails on a connection the client closed: the loop
\* breaks and the receiver is dropped with what it still held
WriteFailed(c) ==
    /\ rx[c]
    /\ queue[c] # << >>
    /\ peer_closed[c]
    /\ rx' = [rx EXCEPT ![c] = FALSE]
    /\ queue' = [queue EXCEPT ![c] = << >>]
    /\ UNCHANGED << cfgVars, clients, slotVars, acceptVars, conn, cur,
                    peer_closed, nreq, scanVars >>

(***************************************************************************)
(* The hub's specification.                                                *)
(***************************************************************************)
Init == HubInit /\ WalkIdle /\ LineIdle /\ MoreIdle

Next ==
    \/ \E c \in Conns : ClientConnect(c)
    \/ \E c \in Conns : ClientClose(c)
    \/ AcceptShutdown
    \/ \E c \in Conns : AcceptConn(c)
    \/ AcceptWouldBlock
    \/ AcceptError
    \/ \E c \in Conns : RegisterClient(c)
    \/ \E c \in Conns : RegisterCloneFailed(c)
    \/ \E c \in Conns : ReadTimeoutOrBlank(c)
    \/ \E c \in Conns : ReadEof(c)
    \/ \E c \in Conns : ReadError(c)
    \/ \E c \in Conns : ReadInvalidJson(c)
    \/ \E c \in Conns : \E req \in Requests(c, token, limits.lines \cap Actions) :
                            ReadRequest(c, req)
    \/ \E c \in Conns : UnauthorizedDelay(c)
    \/ \E c \in Conns : UnauthorizedReply(c)
    \/ \E c \in Conns : HandlePing(c)
    \/ \E c \in Conns : HandleList(c)
    \/ \E c \in Conns : HandleDisk(c)
    \/ \E c \in Conns : HandleRead(c)
    \/ \E c \in Conns : HandleCancel(c)
    \/ \E c \in Conns : HandleShutdown(c)
    \/ \E c \in Conns : HandleScan(c)
    \/ \E c \in Conns : HandleScanStart(c)
    \/ \E s \in ScanIds : ScanNext(s)
    \/ \E s \in ScanIds : ScanEntry(s)
    \/ \E s \in ScanIds : FinishScanStore(s)
    \/ \E s \in ScanIds : FinishScanClear(s)
    \/ \E c \in Conns : WriteLine(c)
    \/ \E c \in Conns : WriteFailed(c)

Spec == Init /\ [][Next]_vars

\* The scheduler runs the threads that can take a step: the scan threads,
\* and the reader threads inside a handler (a reader waiting for a line
\* waits on its client, which owes the hub nothing). The fairness stated is
\* the weakest that says so: while some such thread can step, one of them
\* eventually does. Fair scheduling of each thread implies it.
ScanThread(s) ==
    ScanNext(s) \/ ScanEntry(s) \/ FinishScanStore(s) \/ FinishScanClear(s)
ReaderInHandler(c) ==
    \/ UnauthorizedDelay(c) \/ UnauthorizedReply(c)
    \/ HandlePing(c) \/ HandleList(c) \/ HandleDisk(c) \/ HandleRead(c)
    \/ HandleCancel(c) \/ HandleShutdown(c)
    \/ HandleScan(c) \/ HandleScanStart(c)

ThreadStep ==
    \/ \E s \in ScanIds : ScanThread(s)
    \/ \E c \in Conns : ReaderInHandler(c)

\* The scenarios of the behaviours with fairness: those of Scenarios, the
\* first one in two smaller forms (one client with all the requests, two
\* clients with one request fewer), so that the search for fair cycles
\* stays within reach.
FairScenarios ==
    { [token |-> None, headless |-> FALSE, conns |-> 1, warm |-> 1,
       reqs |-> MaxRequests, lines |-> {"scan", "cancel"},
       badtoken |-> FALSE, faults |-> FALSE],
      [token |-> None, headless |-> FALSE, conns |-> 2, warm |-> 2,
       reqs |-> MaxRequests - 1, lines |-> {"scan", "cancel"},
       badtoken |-> FALSE, faults |-> FALSE] }
    \cup {sc \in Scenarios : sc.reqs < MaxRequests}

FairInit ==
    /\ limits \in FairScenarios
    /\ HubStarted
    /\ WalkIdle /\ LineIdle /\ MoreIdle

FairSpec == FairInit /\ [][Next]_vars /\ WF_vars(ThreadStep)

(***************************************************************************)
(* Claims about the hub.                                                   *)
(***************************************************************************)
\* the reader of connection c takes a step of the handler it is in
ReaderSteps(c) == conn'[c] # conn[c]
\* the scans that hold the slot: from the swap that claimed it to the store
\* of finish_scan, which spans the whole of run_scan
HoldsSlot(s) == scan_pc[s] \in {"claimed", "walk", "entry", "finish"}
InRunScan(s) == scan_pc[s] \in {"walk", "entry"}
InQueue(c, m) == \E i \in 1..Len(queue[c]) : queue[c][i] = m

\* C1: whatever the interleaving of scan requests on the hub's connections,
\* at most one scan holds the slot, and so at most one run_scan started by
\* handle_remote_scan is running, at any time.
C1_OneTraversal ==
    Cardinality({s \in ScanIds : HoldsSlot(s)}) <= 1

\* C1 witness: a second scan walks after a first one has released the slot.
C1_Witness ==
    \E s, t \in ScanIds : scan_pc[s] \in {"clear", "done"} /\ InRunScan(t)

\* C2 as stated: every scan request handled while scan_active is set is
\* answered with the error scan-in-progress and changes neither the slot nor
\* any scan.
C2_Original ==
    [][\A c \in Conns :
         (Dispatching(c, "scan") /\ ReaderSteps(c) /\ scan_active)
         => /\ queue' = send_remote_event(queue, c,
                            send_remote_error(cur[c].id, "scan-in-progress"))
            /\ UNCHANGED << scan_active, scan_cancel, cancel_flag, scanVars >>
      ]_vars

\* C2 as amended: a scan request handled while scan_active is set starts no
\* traversal and changes neither the slot nor any scan; it is answered with
\* the error scan-in-progress (carrying the request id) when its path exists
\* and its options are valid, and with the error of the failed check
\* otherwise.
C2_BusyRefused ==
    [][\A c \in Conns :
         (Dispatching(c, "scan") /\ ReaderSteps(c) /\ scan_active)
         => /\ UNCHANGED << scan_active, scan_cancel, cancel_flag, scanVars >>
            /\ conn'[c] = "reading"
            /\ queue' = send_remote_event(queue, c,
                 send_remote_error(cur[c].id,
                    IF cur[c].path # "exists" THEN "path-not-found"
                    ELSE IF cur[c].options # "valid" THEN "invalid-options"
                    ELSE "scan-in-progress"))
      ]_vars

\* C2 witness: the refusal is queued for a client while a scan is walking.
C2_Witness ==
    \E c \in Conns, s \in ScanIds :
       /\ InRunScan(s)
       /\ InQueue(c, send_remote_error(ReqId(c), "scan-in-progress"))

\* C3: every scan that claimed the slot eventually finishes finish_scan,
\* however the walk ended: its store leaves scan_active false and its last
\* step leaves the cancel handle cleared; and a valid scan request handled
\* while the slot is free claims it and is answered scan-started.
C3_SlotReleased ==
    /\ \A s \in ScanIds : (scan_pc[s] = "claimed") ~> (scan_pc[s] = "done")
    /\ [][\A s \in ScanIds :
            /\ (scan_pc[s] = "finish" /\ scan_pc'[s] # "finish")
               => (scan_pc'[s] = "clear" /\ ~scan_active')
            /\ (scan_pc[s] = "clear" /\ scan_pc'[s] # "clear")
               => (scan_pc'[s] = "done" /\ scan_cancel' = None)
            /\ (scan_pc[s] # "done" /\ scan_pc'[s] = "done")
               => scan_pc[s] = "clear"
         ]_vars
    /\ [][\A c \in Conns :
            /\ (/\ Dispatching(c, "scan") /\ ReaderSteps(c) /\ ~scan_active
                /\ cur[c].path = "exists" /\ cur[c].options = "valid")
               => (conn'[c] = "scan_store" /\ scan_active')
            /\ (conn[c] = "scan_store" /\ ReaderSteps(c))
               => queue' = send_remote_event(queue, c,
                               Msg("scan-started", cur[c].id, ""))
         ]_vars

\* C3 witness: a scan that was cancelled has released the slot and a later
\* scan has claimed it.
C3_Witness ==
    \E s, t \in ScanIds :
       /\ scan_pc[s] = "done" /\ cancel_flag[s]
       /\ HoldsSlot(t)

\* C7: a request is handed to its action handler iff the hub has no token
\* or the request's token equals it; a request that is not is on the
\* unauthorized branch, whose steps start no scan, set no cancellation flag
\* and signal no shutdown.
C7_DispatchIffAuthorized ==
    /\ [](\A c \in Conns :
            /\ conn[c] \in {"dispatch", "scan_store"}
               => (token = None \/ cur[c].token = token)
            /\ conn[c] \in {"auth_delay", "auth_reply"}
               => (token # None /\ cur[c].token # token))
    /\ [][\A c \in Conns :
            /\ (conn[c] = "reading" /\ cur'[c] # NoReq)
               => conn'[c] = IF token = None \/ cur'[c].token = token
                               THEN "dispatch" ELSE "auth_delay"
            /\ (conn[c] \in {"auth_delay", "auth_reply"} /\ ReaderSteps(c))
               => UNCHANGED << slotVars, scanVars, acceptVars >>
         ]_vars

\* C7 witness: a scan request without the token is on the unauthorized
\* branch of a hub that has a token.
C7_Witness ==
    \E c \in Conns :
       /\ conn[c] = "auth_reply"
       /\ cur[c].action = "scan" /\ cur[c].token = None /\ token # None

\* C8: with a token configured, a request whose token is missing or wrong
\* goes through the 2-second delay and is then answered with the error
\* unauthorized carrying its id; no unauthorized reply is queued by a step
\* other than the one after the delay; and the reader returns to its read
\* loop.
C8_UnauthorizedDelayed ==
    /\ \A c \in Conns : (conn[c] = "auth_delay") ~> (conn[c] = "reading")
    /\ [][\A c \in Conns :
            /\ (/\ conn[c] = "reading" /\ cur'[c] # NoReq
                /\ token # None /\ cur'[c].token # token)
               => (conn'[c] = "auth_delay" /\ queue' = queue)
            /\ (conn[c] = "auth_delay" /\ ReaderSteps(c))
               => (conn'[c] = "auth_reply" /\ queue' = queue)
            /\ (conn[c] = "auth_reply" /\ ReaderSteps(c))
               => /\ conn'[c] = "reading"
                  /\ queue' = send_remote_event(queue, c,
                        send_remote_error(cur[c].id, "unauthorized"))
            /\ (/\ Len(queue'[c]) > Len(queue[c])
                /\ queue'[c][Len(queue'[c])].message = "unauthorized")
               => conn[c] = "auth_reply"
         ]_vars

\* C8 witness: the unauthorized reply is queued and a reply to a later
\* request of the same connection is queued behind it.
C8_Witness ==
    \E c \in Conns : \E i, j \in 1..Len(queue[c]) :
       /\ i < j
       /\ queue[c][i] = send_remote_error(ReqId(c), "unauthorized")
       /\ queue[c][j].event = "pong"

\* C10 as stated: the number of registered clients never exceeds
\* MAX_CONNECTIONS.
C10_Original == Len(clients) <= MAX_CONNECTIONS

\* C11: a cancel request handled while the hub holds a cancel handle sets the
\* flag the handle refers to (which is the flag of the scan that is walking,
\* if one is) and is answered cancel-requested; handled while the hub holds
\* none, it is answered no-active-scan and changes nothing of the hub. Both
\* replies carry the request id, and neither changes the slot, the handle,
\* the scans, the registry or the shutdown channel.
C11_CancelSignals ==
    [][\A c \in Conns :
         (Dispatching(c, "cancel") /\ ReaderSteps(c))
         => /\ conn'[c] = "reading"
            /\ UNCHANGED << scan_active, scan_cancel, scanVars, clients,
                            acceptVars >>
            /\ IF scan_cancel # None
                 THEN /\ cancel_flag'[scan_cancel[1]]
                      /\ \A s \in ScanIds :
                            /\ InRunScan(s) => cancel_flag'[s]
                            /\ s # scan_cancel[1]
                               => cancel_flag'[s] = cancel_flag[s]
                      /\ queue' = send_remote_event(queue, c,
                            Msg("cancel-requested", cur[c].id, ""))
                 ELSE /\ cancel_flag' = cancel_flag
                      /\ queue' = send_remote_event(queue, c,
                            Msg("no-active-scan", cur[c].id, ""))
      ]_vars

\* C11 witness: cancel-requested is queued for a client and the scan that is
\* walking has its flag set.
C11_Witness ==
    \E c \in Conns, s \in ScanIds :
       /\ InRunScan(s) /\ cancel_flag[s]
       /\ InQueue(c, Msg("cancel-requested", ReqId(c), ""))

\* C12: a shutdown request handled by a hub that is not headless is answered
\* with the error shutdown-not-allowed and sends nothing on the shutdown
\* channel; handled by a headless hub it sends one signal and is answered
\* shutdown, or is answered with the error shutdown-failed, the channel
\* unchanged, when the send fails (the accept thread has dropped the
\* receiver).
C12_ShutdownHeadlessOnly ==
    [][\A c \in Conns :
         (Dispatching(c, "shutdown") /\ ReaderSteps(c))
         => /\ conn'[c] = "reading"
            /\ accept_pc' = accept_pc
            /\ IF ~headless
                 THEN /\ shutdown_sig' = shutdown_sig
                      /\ queue' = send_remote_event(queue, c,
                            send_remote_error(cur[c].id, "shutdown-not-allowed"))
                 ELSE IF accept_pc # "exited"
                   THEN /\ shutdown_sig' = shutdown_sig + 1
                        /\ queue' = send_remote_event(queue, c,
                              Msg("shutdown", cur[c].id, ""))
                   ELSE /\ shutdown_sig' = shutdown_sig
                        /\ queue' = send_remote_event(queue, c,
                              send_remote_error(cur[c].id, "shutdown-failed"))
      ]_vars

\* C12 witness: a headless hub has answered one shutdown request with
\* shutdown and, the accept loop gone, the next with shutdown-failed.
C12_Witness ==
    \E c \in Conns :
       /\ headless /\ accept_pc = "exited"
       /\ InQueue(c, Msg("shutdown", ReqId(c), ""))
       /\ InQueue(c, send_remote_error(ReqId(c), "shutdown-failed"))

(***************************************************************************)
(* Strings and paths. A string is the sequence of its ASCII codes (32 ' ', *)
(* 40 '(', 46 '.', 47 '/', 65..90 'A'..'Z', 97..122 'a'..'z'); a path is   *)
(* the sequence of its components below the filesystem root.               *)
(***************************************************************************)
\* str::to_lowercase
to_lowercase(s) ==
    [i \in 1..Len(s) |-> IF s[i] >= 65 /\ s[i] <= 90 THEN s[i] + 32 ELSE s[i]]

\* str::trim_start_matches(ch)
RECURSIVE trim_start_matches(_, _)
trim_start_matches(s, ch) ==
    IF s # << >> /\ Head(s) = ch THEN trim_start_matches(Tail(s), ch) ELSE s

RECURSIVE trim_end_matches(_, _)
trim_end_matches(s, ch) ==
    IF s # << >> /\ s[Len(s)] = ch
      THEN trim_end_matches(SubSeq(s, 1, Len(s) - 1), ch) ELSE s

\* str::trim: the whitespace of the model's alphabet is the space
trim(s) == trim_end_matches(trim_start_matches(s, 32), 32)

\* str::contains
contains(hay, needle) ==
    \E i \in 0..(Len(hay) - Len(needle)) :
       SubSeq(hay, i + 1, i + Len(needle)) = needle

\* Regex::new and Regex::is_match (crate regex) for the patterns of the
\* model: letters, '/', and '.', which matches any character; a pattern with
\* an unclosed '(' does not compile. An unanchored pattern matches anywhere.
regex_compiles(pattern) == \A i \in 1..Len(pattern) : pattern[i] # 40
is_match(pattern, value) ==
    \E i \in 0..(Len(value) - Len(pattern)) :
       \A k \in 1..Len(pattern) :
          pattern[k] = 46 \/ value[i + k] = pattern[k]

\* Path::to_string_lossy, by way of get_path_string
RECURSIVE get_path_string(_)
get_path_string(path) ==
    IF path = << >> THEN << 47 >>
    ELSE IF Len(path) = 1 THEN << 47 >> \o path[1]
    ELSE get_path_string(SubSeq(path, 1, Len(path) - 1))
           \o << 47 >> \o path[Len(path)]

\* Path::parent: None for the filesystem root
parent_of(path) ==
    IF path = << >> THEN None ELSE Some(SubSeq(path, 1, Len(path) - 1))

\* get_entry_name_string: the file name, or the whole path when there is none
get_entry_name_string(path) ==
    IF path = << >> THEN get_path_string(path) ELSE path[Len(path)]

get_entry_name_lower(path) == to_lowercase(get_entry_name_string(path))

\* Path::extension: what follows the last '.' of the file name, unless the
\* name has no '.' or nothing stands before its last '.'
extension(path) ==
    IF path = << >> THEN None
    ELSE LET name == path[Len(path)]
             dots == {i \in 1..Len(name) : name[i] = 46}
         IN IF dots = {} THEN None
            ELSE LET last == CHOOSE i \in dots : \A j \in dots : j <= i
                 IN IF last = 1 THEN None
                    ELSE Some(SubSeq(name, last + 1, Len(name)))

(***************************************************************************)
(* Filters: build_filter_config, should_skip_dir, should_include_file.     *)
(***************************************************************************)
\* ScanFilters::default
default_filters ==
    [include_extensions |-> << >>, exclude_extensions |-> << >>,
     include_names |-> << >>, exclude_names |-> << >>,
     min_size_bytes |-> None, max_size_bytes |-> None,
     include_regex |-> None, exclude_regex |-> None,
     include_paths |-> << >>, exclude_paths |-> << >>]

\* normalize_extensions: trimmed, without leading dots, lowercased; the
\* empty ones dropped; a set
normalize_extensions(values) ==
    { to_lowercase(trim_start_matches(trim(values[i]), 46)) :
        i \in 1..Len(values) } \ { << >> }

\* normalize_list: trimmed and lowercased; the empty ones dropped; in order
normalize_list(values) ==
    SelectSeq([i \in 1..Len(values) |-> to_lowercase(trim(values[i]))],
              LAMBDA v : v # << >>)

\* build_filter_config with the extension computed for include lists only
build_filter_config_includes_only(filters) ==
    IF /\ filters.min_size_bytes # None /\ filters.max_size_bytes # None
       /\ filters.min_size_bytes[1] > filters.max_size_bytes[1]
      THEN [ok |-> FALSE, error |-> "Min size cannot exceed max size"]
    ELSE IF /\ filters.include_regex # None
            /\ ~regex_compiles(filters.include_regex[1])
      THEN [ok |-> FALSE, error |-> "regex"]
    ELSE IF /\ filters.exclude_regex # None
            /\ ~regex_compiles(filters.exclude_regex[1])
      THEN [ok |-> FALSE, error |-> "regex"]
    ELSE
      LET include_extensions == normalize_extensions(filters.include_extensions)
          exclude_extensions == normalize_extensions(filters.exclude_extensions)
          include_names == normalize_list(filters.include_names)
          exclude_names == normalize_list(filters.exclude_names)
          include_paths == normalize_list(filters.include_paths)
          exclude_paths == normalize_list(filters.exclude_paths)
          has_include_extensions == include_extensions # {}
          has_exclude_extensions == exclude_extensions # {}
          has_include_names == include_names # << >>
          has_exclude_names == exclude_names # << >>
          has_include_paths == include_paths # << >>
          has_exclude_paths == exclude_paths # << >>
          has_include_regex == filters.include_regex # None
          has_exclude_regex == filters.exclude_regex # None
          has_dir_excludes ==
              has_exclude_paths \/ has_exclude_names \/ has_exclude_regex
      IN [ok |-> TRUE,
          config |->
            [include_extensions |-> include_extensions,
             exclude_extensions |-> exclude_extensions,
             include_names |-> include_names,
             exclude_names |-> exclude_names,
             min_size_bytes |-> filters.min_size_bytes,
             max_size_bytes |-> filters.max_size_bytes,
             include_regex |-> filters.include_regex,
             exclude_regex |-> filters.exclude_regex,
             include_paths |-> include_paths,
             exclude_paths |-> exclude_paths,
             flags |->
               [has_includes |-> \/ has_include_extensions
                                 \/ has_include_names
                                 \/ has_include_paths
                                 \/ has_include_regex,
                has_file_excludes |-> has_dir_excludes
                                        \/ has_exclude_extensions,
                has_dir_excludes |-> has_dir_excludes,
                needs_path |-> \/ has_exclude_paths \/ has_include_paths
                               \/ has_include_regex \/ has_exclude_regex,
                needs_name |-> has_exclude_names \/ has_include_names,
                needs_extension |-> has_include_extensions]]]

\* build_filter_config: Err for min > max or a pattern that does not compile
build_filter_config(filters) ==
    IF /\ filters.min_size_bytes # None /\ filters.max_size_bytes # None
       /\ filters.min_size_bytes[1] > filters.max_size_bytes[1]
      THEN [ok |-> FALSE, error |-> "Min size cannot exceed max size"]
    ELSE IF /\ filters.include_regex # None
            /\ ~regex_compiles(filters.include_regex[1])
      THEN [ok |-> FALSE, error |-> "regex"]
    ELSE IF /\ filters.exclude_regex # None
            /\ ~regex_compiles(filters.exclude_regex[1])
      THEN [ok |-> FALSE, error |-> "regex"]
    ELSE
      LET include_extensions == normalize_extensions(filters.include_extensions)
          exclude_extensions == normalize_extensions(filters.exclude_extensions)
          include_names == normalize_list(filters.include_names)
          exclude_names == normalize_list(filters.exclude_names)
          include_paths == normalize_list(filters.include_paths)
          exclude_paths == normalize_list(filters.exclude_paths)
          has_include_extensions == include_extensions # {}
          has_exclude_extensions == exclude_extensions # {}
          has_include_names == include_names # << >>
          has_exclude_names == exclude_names # << >>
          has_include_paths == include_paths # << >>
          has_exclude_paths == exclude_paths # << >>
          has_include_regex == filters.include_regex # None
          has_exclude_regex == filters.exclude_regex # None
          has_dir_excludes ==
              has_exclude_paths \/ has_exclude_names \/ has_exclude_regex
      IN [ok |-> TRUE,
          config |->
            [include_extensions |-> include_extensions,
             exclude_extensions |-> exclude_extensions,
             include_names |-> include_names,
             exclude_names |-> exclude_names,
             min_size_bytes |-> filters.min_size_bytes,
             max_size_bytes |-> filters.max_size_bytes,
             include_regex |-> filters.include_regex,
             exclude_regex |-> filters.exclude_regex,
             include_paths |-> include_paths,
             exclude_paths |-> exclude_paths,
             flags |->
               [has_includes |-> \/ has_include_extensions
                                 \/ has_include_names
                                 \/ has_include_paths
                                 \/ has_include_regex,
                has_file_excludes |-> has_dir_excludes
                                        \/ has_exclude_extensions,
                has_dir_excludes |-> has_dir_excludes,
                needs_path |-> \/ has_exclude_paths \/ has_include_paths
                               \/ has_include_regex \/ has_exclude_regex,
                needs_name |-> has_exclude_names \/ has_include_names,
                needs_extension |-> has_include_extensions
                                      \/ has_exclude_extensions]]]

\* matches_regex: false without a regex
matches_regex(value, regex) ==
    regex # None /\ is_match(regex[1], value)

\* path_contains_any: some non-empty value of the list is a substring
path_contains_any(path, values) ==
    \E i \in 1..Len(values) :
       values[i] # << >> /\ contains(path, values[i])

\* should_skip_dir applying every exclude criterion of a file, the extension
\* included
should_skip_dir_as_file(root, path, filters) ==
    IF path = root THEN FALSE
    ELSE
      LET path_value == to_lowercase(get_path_string(path))
          name_value == get_entry_name_lower(path)
      IN \/ matches_regex(path_value, filters.exclude_regex)
         \/ path_contains_any(path_value, filters.exclude_paths)
         \/ path_contains_any(name_value, filters.exclude_names)
         \/ /\ extension(path) # None
            /\ to_lowercase(extension(path)[1]) \in filters.exclude_extensions

\* should_skip_dir
should_skip_dir(root, path, filters) ==
    IF path = root THEN FALSE
    ELSE IF ~filters.flags.has_dir_excludes THEN FALSE
    ELSE
      LET path_value == to_lowercase(get_path_string(path))
          name_value == get_entry_name_lower(path)
      IN IF /\ filters.flags.needs_path
            /\ \/ matches_regex(path_value, filters.exclude_regex)
               \/ path_contains_any(path_value, filters.exclude_paths)
           THEN TRUE
         ELSE IF filters.flags.needs_name
           THEN path_contains_any(name_value, filters.exclude_names)
         ELSE FALSE

\* should_include_file deciding on the include criteria before the exclude
\* criteria
should_include_file_include_first(path, size_bytes, filters) ==
    LET path_str == to_lowercase(get_path_string(path))
        name_str == get_entry_name_lower(path)
        ext == IF extension(path) # None
                 THEN Some(to_lowercase(extension(path)[1])) ELSE None
    IN
    IF /\ filters.min_size_bytes # None
       /\ size_bytes < filters.min_size_bytes[1] THEN FALSE
    ELSE IF /\ filters.max_size_bytes # None
            /\ size_bytes > filters.max_size_bytes[1] THEN FALSE
    ELSE IF /\ filters.flags.has_includes
            /\ \/ matches_regex(path_str, filters.include_regex)
               \/ path_contains_any(path_str, filters.include_paths)
               \/ path_contains_any(name_str, filters.include_names)
               \/ /\ ext # None
                  /\ ext[1] \in filters.include_extensions
      THEN TRUE
    ELSE IF \/ matches_regex(path_str, filters.exclude_regex)
            \/ path_contains_any(path_str, filters.exclude_paths)
            \/ path_contains_any(name_str, filters.exclude_names)
            \/ /\ ext # None
               /\ ext[1] \in filters.exclude_extensions
      THEN FALSE
    ELSE ~filters.flags.has_includes

\* should_include_file
should_include_file(path, size_bytes, filters) ==
    LET path_str == IF filters.flags.needs_path
                      THEN Some(to_lowercase(get_path_string(path)))
                      ELSE None
        name_str == IF filters.flags.needs_name
                      THEN Some(get_entry_name_lower(path)) ELSE None
        ext == IF filters.flags.needs_extension /\ extension(path) # None
                 THEN Some(to_lowercase(extension(path)[1])) ELSE None
    IN
    IF /\ filters.min_size_bytes # None
       /\ size_bytes < filters.min_size_bytes[1] THEN FALSE
    ELSE IF /\ filters.max_size_bytes # None
            /\ size_bytes > filters.max_size_bytes[1] THEN FALSE
    ELSE IF /\ filters.flags.has_file_excludes
            /\ \/ /\ path_str # None
                  /\ \/ matches_regex(path_str[1], filters.exclude_regex)
                     \/ path_contains_any(path_str[1], filters.exclude_paths)
               \/ /\ name_str # None
                  /\ path_contains_any(name_str[1], filters.exclude_names)
               \/ /\ ext # None
                  /\ ext[1] \in filters.exclude_extensions
      THEN FALSE
    ELSE IF ~filters.flags.has_includes THEN TRUE
    ELSE IF /\ path_str # None
            /\ \/ matches_regex(path_str[1], filters.include_regex)
               \/ path_contains_any(path_str[1], filters.include_paths)
      THEN TRUE
    ELSE IF /\ name_str # None
            /\ path_contains_any(name_str[1], filters.include_names)
      THEN TRUE
    ELSE IF ext # None THEN ext[1] \in filters.include_extensions
    ELSE FALSE

(***************************************************************************)
(* Aggregation and snapshots: NodeStats, update_largest_files, build_node, *)
(* build_summary.                                                          *)
(***************************************************************************)
\* The width of the byte counters (u64, main.rs:303), scaled from 64 bits so
\* that the sizes of a small tree can exceed it. The release profile adds
\* without overflow checks, so the sums wrap. The entry counters are u64 as
\* well, but count entries held in memory and cannot reach their width.
U64_BITS == 3
wrapping_add(a, b) == (a + b) % (2 ^ U64_BITS)

\* the cap on the children rendered in a progress snapshot (main.rs:572;
\* 400 in the source) and the length of the largest-files list (main.rs:547;
\* 10 in the source), scaled to the trees of the model
MAX_CHILDREN == 2
LARGEST_LIMIT == 2

\* HashMap::get with a default, and HashMap::insert
MapGet(map, key, default) == IF key \in DOMAIN map THEN map[key] ELSE default
MapPut(map, key, value) ==
    [k \in DOMAIN map \cup {key} |-> IF k = key THEN value ELSE map[k]]

\* NodeStats::default
NodeStats == [direct_bytes |-> 0, direct_files |-> 0, direct_dirs |-> 0]

ScanFile(path, size_bytes) ==
    [path |-> get_path_string(path), name |-> get_entry_name_string(path),
     size_bytes |-> size_bytes]

\* str::cmp: the order of the bytes, a prefix before what extends it
str_less(a, b) ==
    \E k \in 1..Len(b) :
       /\ k <= Len(a) + 1
       /\ \A j \in 1..(k - 1) : a[j] = b[j]
       /\ (k > Len(a) \/ a[k] < b[k])

\* the comparators handed to sort_by: whether a goes before b
by_size_desc(a, b) == a.size_bytes > b.size_bytes
by_name(a, b) == str_less(a.name, b.name)
by_size_then_name(a, b) ==
    \/ a.size_bytes > b.size_bytes
    \/ (a.size_bytes = b.size_bytes /\ str_less(a.name, b.name))
before(order, a, b) ==
    CASE order = "size_desc" -> by_size_desc(a, b)
      [] order = "name" -> by_name(a, b)
      [] order = "size_then_name" -> by_size_then_name(a, b)

\* slice::sort_by: a stable sort
sort_by(seq, order) ==
    LET n == Len(seq)
        rank(i) == Cardinality({j \in 1..n :
                       \/ before(order, seq[j], seq[i])
                       \/ (~before(order, seq[i], seq[j]) /\ j < i)}) + 1
    IN [k \in 1..n |-> seq[CHOOSE i \in 1..n : rank(i) = k]]

\* Vec::truncate
truncate(seq, limit) ==
    IF Len(seq) > limit THEN SubSeq(seq, 1, limit) ELSE seq

\* update_largest_files pushing without sorting
update_largest_files_unsorted(largest, path, size_bytes, limit) ==
    IF size_bytes = 0 THEN largest
    ELSE IF Len(largest) < limit
      THEN Append(largest, ScanFile(path, size_bytes))
    ELSE IF size_bytes <= (IF largest = << >> THEN 0
                           ELSE largest[Len(largest)].size_bytes)
      THEN largest
    ELSE truncate(Append(largest, ScanFile(path, size_bytes)), limit)

\* update_largest_files keeping a full list as it is
update_largest_files_first_come(largest, path, size_bytes, limit) ==
    IF size_bytes = 0 THEN largest
    ELSE IF Len(largest) < limit
      THEN sort_by(Append(largest, ScanFile(path, size_bytes)), "size_desc")
    ELSE largest

\* update_largest_files
update_largest_files(largest, path, size_bytes, limit) ==
    IF size_bytes = 0 THEN largest
    ELSE IF Len(largest) < limit
      THEN sort_by(Append(largest, ScanFile(path, size_bytes)), "size_desc")
    ELSE IF size_bytes <= (IF largest = << >> THEN 0
                           ELSE largest[Len(largest)].size_bytes)
      THEN largest
    ELSE truncate(sort_by(Append(largest, ScanFile(path, size_bytes)),
                          "size_desc"), limit)

RECURSIVE sum_bytes(_)
sum_bytes(nodes) ==
    IF nodes = << >> THEN 0
    ELSE wrapping_add(nodes[1].size_bytes, sum_bytes(Tail(nodes)))
RECURSIVE sum_files(_)
sum_files(nodes) ==
    IF nodes = << >> THEN 0 ELSE nodes[1].file_count + sum_files(Tail(nodes))
RECURSIVE sum_dirs(_)
sum_dirs(nodes) ==
    IF nodes = << >> THEN 0
    ELSE 1 + nodes[1].dir_count + sum_dirs(Tail(nodes))

\* build_node counting the rendered children only
RECURSIVE build_node_rendered_only(_, _, _, _, _, _, _, _, _)
build_node_rendered_only(path, chmap, fmap, smap, depth, max_depth, max_files, sort_by_size, max_children) ==
    LET own == MapGet(smap, path, NodeStats)
        children_paths == MapGet(chmap, path, << >>)
        child_nodes ==
            [i \in 1..Len(children_paths) |->
                build_node_rendered_only(children_paths[i], chmap, fmap, smap, depth + 1,
                           max_depth, max_files, sort_by_size, max_children)]
        pushed == IF max_depth = None \/ depth < max_depth[1]
                    THEN child_nodes ELSE << >>
        sorted == IF sort_by_size THEN sort_by(pushed, "size_then_name")
                  ELSE sort_by(pushed, "name")
        nodes == IF max_children # None THEN truncate(sorted, max_children[1])
                 ELSE sorted
        all_files == MapGet(fmap, path, << >>)
        files == IF max_files # None /\ Len(all_files) > max_files[1]
                   THEN truncate(sort_by(all_files, "size_desc"),
                                 max_files[1])
                   ELSE all_files
    IN [path |-> get_path_string(path),
        name |-> get_entry_name_string(path),
        size_bytes |-> wrapping_add(own.direct_bytes, sum_bytes(nodes)),
        file_count |-> own.direct_files + sum_files(nodes),
        dir_count |-> sum_dirs(nodes),
        files |-> files,
        children |-> nodes]

\* build_node: the node of `path`, computed bottom-up from the maps. The
\* counts take in every recorded child; the rendered children are those the
\* depth limit lets through, sorted, and cut to max_children; the rendered
\* files are cut to the max_files largest.
RECURSIVE build_node(_, _, _, _, _, _, _, _, _)
build_node(path, chmap, fmap, smap, depth, max_depth, max_files, sort_by_size, max_children) ==
    LET own == MapGet(smap, path, NodeStats)
        children_paths == MapGet(chmap, path, << >>)
        child_nodes ==
            [i \in 1..Len(children_paths) |->
                build_node(children_paths[i], chmap, fmap, smap, depth + 1,
                           max_depth, max_files, sort_by_size, max_children)]
        pushed == IF max_depth = None \/ depth < max_depth[1]
                    THEN child_nodes ELSE << >>
        sorted == IF sort_by_size THEN sort_by(pushed, "size_then_name")
                  ELSE sort_by(pushed, "name")
        nodes == IF max_children # None THEN truncate(sorted, max_children[1])
                 ELSE sorted
        all_files == MapGet(fmap, path, << >>)
        files == IF max_files # None /\ Len(all_files) > max_files[1]
                   THEN truncate(sort_by(all_files, "size_desc"),
                                 max_files[1])
                   ELSE all_files
    IN [path |-> get_path_string(path),
        name |-> get_entry_name_string(path),
        size_bytes |-> wrapping_add(own.direct_bytes, sum_bytes(child_nodes)),
        file_count |-> own.direct_files + sum_files(child_nodes),
        dir_count |-> sum_dirs(child_nodes),
        files |-> files,
        children |-> nodes]

\* build_summary (duration_ms, a reading of the clock, is left out)
build_summary(root, chmap, fmap, smap, largest, id, compact, sort_by_size, max_children) ==
    LET root_node ==
          build_node(root, chmap, fmap, smap, 0,
                     IF compact THEN Some(1) ELSE None,
                     IF compact THEN Some(0) ELSE None,
                     sort_by_size, max_children)
    IN [id |-> id,
        root |-> root_node,
        total_bytes |-> root_node.size_bytes,
        file_count |-> root_node.file_count,
        dir_count |-> root_node.dir_count,
        largest_files |-> largest]

(***************************************************************************)
(* The scan configuration: build_scan_config.                              *)
(***************************************************************************)
\* build_scan_config: the cadence of the priority mode and the throttle of
\* the throttle level. The entry counts are scaled to the trees of the
\* model (emit_every 5000, 10000, 20000 and every_entries 1200, 600, 250 in
\* the source), keeping their order. The parallelism (resolve_parallelism)
\* sizes the walk's thread pool and changes nothing the model holds: the
\* walk yields its entries in the order of a serial walk.
build_scan_config(options) ==
    LET built == build_filter_config(options.filters) IN
    IF ~built.ok THEN built
    ELSE [ok |-> TRUE,
          config |->
            [filters |-> built.config,
             emit_every |->
               CASE options.priority_mode = "Performance" -> 2
                 [] options.priority_mode = "Balanced" -> 4
                 [] options.priority_mode = "Low" -> 8,
             throttle |->
               CASE options.throttle_level = "Off" -> None
                 [] options.throttle_level = "Low" ->
                      Some([every_entries |-> 3, sleep_ms |-> 1])
                 [] options.throttle_level = "Medium" ->
                      Some([every_entries |-> 2, sleep_ms |-> 3])
                 [] options.throttle_level = "High" ->
                      Some([every_entries |-> 1, sleep_ms |-> 6])]]

\* ScanOptions::default
default_options ==
    [priority_mode |-> "Balanced", throttle_level |-> "Off",
     filters |-> default_filters]

\* should_emit_progress; `elapsed` says whether last_emit.elapsed() has
\* reached config.emit_interval
should_emit_progress(count, elapsed, config) ==
    IF count % config.emit_every = 0 THEN TRUE ELSE elapsed

(***************************************************************************)
(* The trees and the options of the model.                                 *)
(***************************************************************************)
\* entries a tree may hold below its root
MaxTree == 4

\* the scan root /r
RootPath == << << 114 >> >>
DirEntry(path) == [path |-> path, kind |-> "dir", size |-> 0, ok |-> TRUE]
\* size is what entry.metadata() reports, 0 when it fails
FileEntry(path, size) ==
    [path |-> path, kind |-> "file", size |-> size, ok |-> TRUE]

\* what may exist below the root: /r/d, /r/d/e, /r/B, /r/A (directories);
\* /r/a.b, /r/d/C.B, /r/d/e/b, /r/.b (files); /r/l (a symlink, neither
\* directory nor file); /r/d/x (an entry the walk fails to read)
Universe ==
    { DirEntry(RootPath \o << << 100 >> >>),
      DirEntry(RootPath \o << << 100 >>, << 101 >> >>),
      DirEntry(RootPath \o << << 66 >> >>),
      DirEntry(RootPath \o << << 65 >> >>),
      FileEntry(RootPath \o << << 97, 46, 98 >> >>, 5),
      FileEntry(RootPath \o << << 100 >>, << 67, 46, 66 >> >>, 2),
      FileEntry(RootPath \o << << 100 >>, << 101 >>, << 98 >> >>, 3),
      FileEntry(RootPath \o << << 46, 98 >> >>, 0),
      [path |-> RootPath \o << << 108 >> >>, kind |-> "other", size |-> 0,
       ok |-> TRUE],
      [path |-> RootPath \o << << 100 >>, << 120 >> >>, kind |-> "other",
       size |-> 0, ok |-> FALSE] }

\* the trees: a root directory and entries below it, each in a directory of
\* the tree; and a root that is a single file
ParentClosed(t) ==
    \A e \in t : \/ parent_of(e.path)[1] = RootPath
                 \/ \E d \in t : d.kind = "dir" /\ d.path = parent_of(e.path)[1]
Trees ==
    { t \cup {DirEntry(RootPath)} :
        t \in {u \in SUBSET Universe :
                 Cardinality(u) <= MaxTree /\ ParentClosed(u)} }
    \cup {{FileEntry(RootPath, 3)}}

\* the tree that holds every directory and file of the universe's /r/d
DeepTree ==
    {DirEntry(RootPath)} \cup
    {e \in Universe : e.kind # "other" /\ Len(e.path) >= 2
                      /\ e.path[2] = << 100 >>}

\* filters that compile, one criterion each: none; names containing "d"
\* excluded; extension " .B" included; at least 3 bytes; at most 2 bytes;
\* paths matching d/. excluded; paths containing "/E" included
FilterSpecs ==
    { default_filters,
      [default_filters EXCEPT !.exclude_names = << << 100 >> >>],
      [default_filters EXCEPT !.include_extensions = << << 32, 46, 66 >> >>],
      [default_filters EXCEPT !.min_size_bytes = Some(3)],
      [default_filters EXCEPT !.max_size_bytes = Some(2)],
      [default_filters EXCEPT !.exclude_regex = Some(<< 100, 47, 46 >>)],
      [default_filters EXCEPT !.include_paths = << << 47, 69 >> >>] }

\* the runs of the model: every tree under the default options; the deep
\* tree under every filter; the deep tree under every cadence and throttle;
\* the deep tree under a filter that rejects a file, with the shortest
\* cadence and throttle
WalkScenarios ==
    { [tree |-> t, options |-> default_options] : t \in Trees }
    \cup
    { [tree |-> DeepTree, options |-> [default_options EXCEPT !.filters = f]] :
        f \in FilterSpecs }
    \cup
    { [tree |-> DeepTree,
       options |-> [default_options EXCEPT !.priority_mode = p,
                                           !.throttle_level = l]] :
        p \in {"Performance", "Balanced", "Low"},
        l \in {"Off", "Low", "Medium", "High"} }
    \cup
    { [tree |-> DeepTree,
       options |-> [priority_mode |-> "Performance", throttle_level |-> "High",
                    filters |-> [default_filters EXCEPT
                                   !.max_size_bytes = Some(2)]]] }

(***************************************************************************)
(* run_scan.                                                               *)
(***************************************************************************)
ProgressEvent(summary) == [kind |-> "Progress", summary |-> summary]
CompleteEvent(summary) == [kind |-> "Complete", summary |-> summary]
CancelledEvent == [kind |-> "Cancelled", message |-> "Scan cancelled"]
ErrorEvent(message) == [kind |-> "Error", message |-> message]

\* the state at the call of run_scan: the locals declared at 494-501
WalkInit ==
    /\ \E sc \in WalkScenarios :
          /\ fs = sc.tree
          /\ scan_args = [root |-> RootPath,
                          config |-> build_scan_config(sc.options).config,
                          scan_id |-> Some("scan")]
    /\ cancel = FALSE
    /\ walk_pc = "next"
    /\ unvisited = fs
    /\ dir_stack = << >>
    /\ entry = None
    /\ stats = << >>
    /\ children = << >>
    /\ files_by_parent = << >>
    /\ largest_files = << >>
    /\ last_emitted_bytes = 0
    /\ processed = 0
    /\ sleeps = 0
    /\ events = << >>
    /\ result = "none"
    /\ cancel_req = None

\* WalkDir (crate jwalk): the entries come in depth-first order, a directory
\* before what it holds, the root first; the order within a directory is
\* the one the system lists it in. dir_stack holds the directories the walk
\* is inside of; those with nothing left to yield are left.
RECURSIVE OpenDirs(_)
OpenDirs(stack) ==
    IF stack = << >> THEN stack
    ELSE IF \E e \in unvisited : parent_of(e.path) = Some(stack[Len(stack)])
      THEN stack
    ELSE OpenDirs(SubSeq(stack, 1, Len(stack) - 1))

NextEntries ==
    IF \E e \in unvisited : e.path = scan_args.root
      THEN {e \in unvisited : e.path = scan_args.root}
    ELSE LET open == OpenDirs(dir_stack) IN
         IF open = << >> THEN {}
         ELSE {e \in unvisited : parent_of(e.path) = Some(open[Len(open)])}

\* a check of the flag that comes after the match on the entry, so that an
\* entry the walk failed to read goes by unchecked
cancel_observed_after_match(flag, item) == flag /\ item.ok

\* lines 505-508: the flag is loaded once for every item the walk yields,
\* before the item is looked at
cancel_observed(flag, item) == flag

\* a cancelled branch without its return: the loop goes on with the entry
after_cancelled_no_return == "body"

\* line 507: return Ok(()) after the Cancelled event
after_cancelled == "returned"

\* an emission without the guard of line 576
may_emit_unguarded(total_bytes, last_bytes) == TRUE

\* line 576: summary.total_bytes >= last_emitted_bytes
may_emit(total_bytes, last_bytes) == total_bytes >= last_bytes

aggVars == << stats, children, files_by_parent, largest_files >>

\* `for entry in walk`: the walk is exhausted and the final summary is built
\* and emitted (584-597), or it yields an item and the flag is loaded
\* (505-512)
WalkNext ==
    /\ walk_pc = "next"
    /\ IF NextEntries = {}
         THEN /\ events' = Append(events, CompleteEvent(
                    build_summary(scan_args.root, children, files_by_parent,
                                  stats, largest_files, scan_args.scan_id,
                                  FALSE, TRUE, None)))
              /\ result' = "Ok"
              /\ walk_pc' = "returned"
              /\ UNCHANGED << unvisited, dir_stack, entry >>
         ELSE \E item \in NextEntries :
              /\ unvisited' = unvisited \ {item}
              /\ dir_stack' = IF item.kind = "dir" /\ item.ok
                                THEN Append(OpenDirs(dir_stack), item.path)
                                ELSE OpenDirs(dir_stack)
              /\ IF cancel_observed(cancel, item)
                   THEN /\ events' = Append(events, CancelledEvent)
                        /\ walk_pc' = after_cancelled
                        /\ result' = IF after_cancelled = "returned"
                                       THEN "Ok" ELSE result
                        /\ entry' = IF after_cancelled = "returned"
                                      THEN None ELSE Some(item)
                   ELSE /\ walk_pc' = IF item.ok THEN "body" ELSE "next"
                        /\ entry' = IF item.ok THEN Some(item) ELSE None
                        /\ UNCHANGED << events, result >>
    /\ UNCHANGED << fs, scan_args, cancel, aggVars, last_emitted_bytes,
                    processed, sleeps, cancel_req, hubVars, lineVars, moreVars >>

\* the loop body for one entry (513-581): the count, the directory or the
\* file branch, the throttle, the progress snapshot
WalkBody ==
    /\ walk_pc = "body"
    /\ LET e == entry[1]
           root == scan_args.root
           config == scan_args.config
           count == processed + 1
           parent == parent_of(e.path)
           is_dir == e.kind = "dir"
           is_file == e.kind = "file"
           size == e.size
           skipped ==
             \/ is_dir /\ should_skip_dir(root, e.path, config.filters)
             \/ is_file /\ ~should_include_file(e.path, size, config.filters)
           with_dir == MapPut(stats, e.path, MapGet(stats, e.path, NodeStats))
           stats1 ==
             IF is_dir
               THEN IF parent # None
                      THEN MapPut(with_dir, parent[1],
                             [MapGet(with_dir, parent[1], NodeStats)
                                EXCEPT !.direct_dirs = @ + 1])
                      ELSE with_dir
             ELSE IF is_file /\ parent # None
               THEN MapPut(stats, parent[1],
                      [MapGet(stats, parent[1], NodeStats)
                         EXCEPT !.direct_bytes = wrapping_add(@, size),
                                !.direct_files = @ + 1])
             ELSE stats
           children1 ==
             IF is_dir /\ parent # None
               THEN MapPut(children, parent[1],
                      Append(MapGet(children, parent[1], << >>), e.path))
               ELSE children
           files1 ==
             IF is_file /\ parent # None
               THEN MapPut(files_by_parent, parent[1],
                      Append(MapGet(files_by_parent, parent[1], << >>),
                             ScanFile(e.path, size)))
               ELSE files_by_parent
           largest1 ==
             IF is_file
               THEN update_largest_files(largest_files, e.path, size,
                                         LARGEST_LIMIT)
               ELSE largest_files
           summary ==
             build_summary(root, children1, files1, stats1, largest1,
                           scan_args.scan_id, TRUE, FALSE, Some(MAX_CHILDREN))
       IN /\ processed' = count
          /\ IF skipped
               THEN UNCHANGED << aggVars, sleeps, events, last_emitted_bytes >>
               ELSE /\ stats' = stats1
                    /\ children' = children1
                    /\ files_by_parent' = files1
                    /\ largest_files' = largest1
                    /\ sleeps' =
                         IF /\ config.throttle # None
                            /\ config.throttle[1].sleep_ms > 0
                            /\ count % config.throttle[1].every_entries = 0
                           THEN sleeps + 1 ELSE sleeps
                    /\ \E elapsed \in BOOLEAN :
                         IF /\ should_emit_progress(count, elapsed, config)
                            /\ may_emit(summary.total_bytes,
                                        last_emitted_bytes)
                           THEN /\ last_emitted_bytes' = summary.total_bytes
                                /\ events' = Append(events,
                                                    ProgressEvent(summary))
                           ELSE UNCHANGED << events, last_emitted_bytes >>
    /\ walk_pc' = "next"
    /\ entry' = None
    /\ UNCHANGED << fs, scan_args, cancel, unvisited, dir_stack, result,
                    cancel_req, hubVars, lineVars, moreVars >>

\* another thread stores true in the flag (cancel_scan; scan_path for the
\* same window; the hub's cancel_scan) while run_scan has not returned
CancelRequest ==
    /\ walk_pc # "returned"
    /\ ~cancel
    /\ cancel' = TRUE
    /\ cancel_req' = Some([events |-> Len(events),
                           pending |-> unvisited # {},
                           pc |-> walk_pc])
    /\ UNCHANGED << fs, scan_args, walk_pc, unvisited, dir_stack, entry,
                    aggVars, last_emitted_bytes, processed, sleeps, events,
                    result, hubVars, lineVars, moreVars >>

NextWalk == WalkNext \/ WalkBody \/ CancelRequest

InitWalk == HubIdle /\ WalkInit /\ LineIdle /\ MoreIdle

SpecWalk == InitWalk /\ [][NextWalk]_vars

(***************************************************************************)
(* Claims about run_scan.                                                  *)
(***************************************************************************)
Kinds(k) == {i \in 1..Len(events) : events[i].kind = k}
Terminal == Kinds("Complete") \cup Kinds("Cancelled")
\* the events emitted after cancellation was requested
AfterRequest(k) == {i \in Kinds(k) : i > cancel_req[1].events}

\* C4 as stated: once a run whose flag was set while it was running has
\* returned, it has emitted exactly one Cancelled event, and no Progress or
\* Complete event after the flag was set.
C4_Original ==
    (walk_pc = "returned" /\ cancel_req # None)
    => /\ Cardinality(Kinds("Cancelled")) = 1
       /\ AfterRequest("Progress") = {}
       /\ AfterRequest("Complete") = {}

\* C4 as amended: when the flag is set while the walk still has an item to
\* yield, the run emits exactly one Cancelled event, as its last event, and
\* no Complete event; after the flag was set no Progress event is emitted
\* but the one of the entry whose loop body was running at that moment. A
\* flag set when the walk has nothing left to yield is never loaded: the run
\* ends with Complete and without Cancelled.
C4_CancelObserved ==
    /\ cancel_req # None
       => Cardinality(AfterRequest("Progress"))
             <= (IF cancel_req[1].pc = "body" THEN 1 ELSE 0)
    /\ (walk_pc = "returned" /\ cancel_req # None /\ cancel_req[1].pending)
       => /\ Kinds("Cancelled") = {Len(events)}
          /\ Kinds("Complete") = {}
    /\ (walk_pc = "returned" /\ cancel_req # None /\ ~cancel_req[1].pending)
       => /\ Kinds("Complete") = {Len(events)}
          /\ Kinds("Cancelled") = {}

\* C4 witness: the flag was set during the body of an entry that went on to
\* emit its Progress event, and the run has ended with Cancelled.
C4_Witness ==
    /\ walk_pc = "returned"
    /\ cancel_req # None
    /\ cancel_req[1].pc = "body"
    /\ AfterRequest("Progress") # {}
    /\ Kinds("Cancelled") # {}

\* the directories and files a node renders, itself not counted
RECURSIVE RenderedDirs(_)
RenderedDirs(node) ==
    IF node.children = << >> THEN 0
    ELSE LET first == node.children[1]
         IN 1 + RenderedDirs(first)
              + RenderedDirs([node EXCEPT !.children = Tail(@)])
RECURSIVE RenderedFiles(_)
RenderedFiles(node) ==
    IF node.children = << >> THEN Len(node.files)
    ELSE RenderedFiles(node.children[1])
           + RenderedFiles([node EXCEPT !.children = Tail(@)])

\* C5: a run that has not returned has emitted Progress events only; a run
\* that has returned has emitted exactly one terminal event, as its last
\* event, has returned Ok and has emitted no Error event. The terminal event
\* is Cancelled only if the flag was set, and Complete only if the walk
\* yielded everything, which it is whenever no cancellation was requested;
\* the summary of Complete renders every directory and file it counts.
C5_OneTerminal ==
    /\ walk_pc # "returned"
       => (Terminal = {} /\ Kinds("Error") = {} /\ result = "none")
    /\ walk_pc = "returned"
       => /\ Terminal = {Len(events)}
          /\ Kinds("Error") = {}
          /\ result = "Ok"
          /\ Kinds("Cancelled") # {} => (cancel /\ cancel_req # None)
          /\ Kinds("Complete") # {} => unvisited = {}
          /\ cancel_req = None => Kinds("Complete") # {}
          /\ \A i \in Kinds("Complete") :
                /\ RenderedDirs(events[i].summary.root)
                      = events[i].summary.dir_count
                /\ RenderedFiles(events[i].summary.root)
                      = events[i].summary.file_count

\* C5 witness: a run that emitted Progress events has returned after
\* Cancelled with entries left unvisited.
C5_Witness ==
    /\ walk_pc = "returned"
    /\ result = "Ok"
    /\ Kinds("Progress") # {}
    /\ events[Len(events)].kind = "Cancelled"
    /\ unvisited # {}

\* C6: of two Progress events of a run, the later carries a total_bytes that
\* is not below the earlier's.
C6_ProgressMonotone ==
    \A i, j \in Kinds("Progress") :
       i < j => events[i].summary.total_bytes <= events[j].summary.total_bytes

\* C6 witness: Progress events with growing totals were emitted, and the
\* total of the tree now stands below the last one emitted.
C6_Witness ==
    /\ \E i, j \in Kinds("Progress") :
          events[i].summary.total_bytes < events[j].summary.total_bytes
    /\ walk_pc = "next"
    /\ build_summary(scan_args.root, children, files_by_parent, stats,
                     largest_files, scan_args.scan_id, TRUE, FALSE,
                     Some(MAX_CHILDREN)).total_bytes < last_emitted_bytes

\* the files of the tree that should_include_file accepts
IncludedFiles ==
    {e \in fs : /\ e.kind = "file"
                /\ should_include_file(e.path, e.size,
                                       scan_args.config.filters)}
RECURSIVE SumOfSizes(_)
SumOfSizes(files) ==
    IF files = {} THEN 0
    ELSE LET f == CHOOSE x \in files : TRUE
         IN f.size + SumOfSizes(files \ {f})

\* C15 as stated: the summary of Complete of a scan of a directory carries,
\* as total_bytes, the sum (in the counter's arithmetic) of the sizes of the
\* files of the tree that should_include_file accepts, and their number as
\* file_count.
C15_Original ==
    \A i \in Kinds("Complete") :
       DirEntry(scan_args.root) \in fs
       => /\ events[i].summary.total_bytes
                = SumOfSizes(IncludedFiles) % (2 ^ U64_BITS)
          /\ events[i].summary.file_count = Cardinality(IncludedFiles)

\* the entries below a directory, other than the root, that should_skip_dir
\* skips
BelowSkipped(path) ==
    \E d \in fs :
       /\ d.kind = "dir"
       /\ Len(d.path) < Len(path)
       /\ d.path = SubSeq(path, 1, Len(d.path))
       /\ should_skip_dir(scan_args.root, d.path, scan_args.config.filters)
\* the directories that are skipped, and those below them
Pruned(path) ==
    \/ BelowSkipped(path)
    \/ should_skip_dir(scan_args.root, path, scan_args.config.filters)

\* C16 as stated: the loop body never works on an entry below a skipped
\* directory; no directory that is skipped or lies below a skipped one has
\* stats, recorded children or recorded files; and no file below a skipped
\* directory is in largest_files.
C16_Original ==
    /\ entry # None => ~BelowSkipped(entry[1].path)
    /\ \A d \in fs :
          (d.kind = "dir" /\ Pruned(d.path))
          => d.path \notin (DOMAIN stats \cup DOMAIN children
                              \cup DOMAIN files_by_parent)
    /\ \A e \in fs : \A i \in 1..Len(largest_files) :
          BelowSkipped(e.path)
          => largest_files[i].path # get_path_string(e.path)

(***************************************************************************)
(* handle_client's read loop over read_secure_line. Bytes are ASCII codes: *)
(* 10 is the newline, 32 the space, 97 'a'; 255 is a byte that no UTF-8    *)
(* string holds.                                                           *)
(***************************************************************************)
\* main.rs:15 (10 MiB in the source), and the capacity of BufReader::new
\* (main.rs:1026; 8 KiB in the standard library), scaled to the lines of the
\* model
MAX_LINE_LENGTH == 3
BUF_CAPACITY == 2

\* the longest line content (without its newline) a client sends, and the
\* number of lines it sends
MaxLineLen == 3
MaxLines == 2

\* what a client may send as one line: 'a's, a blank line, a line with a
\* byte that is no UTF-8; each ended by a newline
LineContents ==
    { [i \in 1..n |-> 97] : n \in 0..MaxLineLen }
    \cup { << 32 >>, << 97, 255 >> }
ClientLines == { content \o << 10 >> : content \in LineContents }

\* the sequences of lines a client sends; the last may lack its newline
ClientScripts ==
    UNION { [1..n -> ClientLines] : n \in 0..MaxLines }
    \cup { << << 97 >> >>, << << 97, 10 >>, << 97, 97 >> >> }

RECURSIVE Flatten(_)
Flatten(seqs) == IF seqs = << >> THEN << >> ELSE Head(seqs) \o Flatten(Tail(seqs))

\* String::from_utf8 succeeds
from_utf8_ok(bytes) == \A i \in 1..Len(bytes) : bytes[i] # 255
\* line.trim().is_empty()
is_blank(bytes) == \A i \in 1..Len(bytes) : bytes[i] \in {10, 32}

LineInit ==
    /\ client_lines \in ClientScripts
    /\ to_send = Flatten(client_lines)
    /\ wire = << >>
    /\ eof = FALSE
    /\ buf = << >>
    /\ line = << >>
    /\ total_read = 0
    /\ read_pc = "reading"
    /\ delivered = << >>
    /\ read_errors = << >>

\* the client sends the next n bytes: one segment
ClientSend(n) ==
    /\ n <= Len(to_send)
    /\ ~eof
    /\ wire' = wire \o SubSeq(to_send, 1, n)
    /\ to_send' = SubSeq(to_send, n + 1, Len(to_send))
    /\ UNCHANGED << client_lines, eof, buf, line, total_read, read_pc,
                    delivered, read_errors, hubVars, walkVars, moreVars >>

\* the client closes the connection after its last byte
ClientShutdown ==
    /\ to_send = << >>
    /\ ~eof
    /\ eof' = TRUE
    /\ UNCHANGED << client_lines, to_send, wire, buf, line, total_read,
                    read_pc, delivered, read_errors, hubVars, walkVars, moreVars >>

\* what read_secure_line's return does to handle_client's loop (1028-1046):
\* a line that is not blank is handed to handle_remote_line; the locals of
\* read_secure_line are gone
Returned(value) ==
    /\ delivered' = IF is_blank(value) THEN delivered
                    ELSE Append(delivered, value)
    /\ line' = << >>
    /\ total_read' = 0

Failed(error) ==
    /\ read_errors' = Append(read_errors, error)
    /\ read_pc' = "closed"
    /\ line' = << >>
    /\ total_read' = 0

\* one turn of read_secure_line's loop on the bytes fill_buf makes
\* available (2147-2176), and the return when the line ends (2177-2180)
TakeAvailable(available, rest_buf, rest_wire) ==
    LET length == Len(available)
        newlines == {i \in 1..length : available[i] = 10}
        newline_pos == IF newlines = {} THEN None
                       ELSE Some(CHOOSE i \in newlines :
                                    \A j \in newlines : i <= j)
        bytes_to_take == IF newline_pos # None THEN newline_pos[1]
                         ELSE length
        taken == line \o SubSeq(available, 1, bytes_to_take)
    IN IF total_read + bytes_to_take > MAX_LINE_LENGTH
         THEN /\ Failed("Line too long")
              /\ buf' = available \o rest_buf
              /\ wire' = rest_wire
              /\ UNCHANGED delivered
       ELSE /\ buf' = SubSeq(available, bytes_to_take + 1, length) \o rest_buf
            /\ wire' = rest_wire
            /\ IF newline_pos = None
                 THEN /\ line' = taken
                      /\ total_read' = total_read + bytes_to_take
                      /\ UNCHANGED << delivered, read_errors, read_pc >>
               ELSE IF from_utf8_ok(taken)
                 THEN /\ Returned(taken)
                      /\ UNCHANGED << read_errors, read_pc >>
               ELSE /\ Failed("invalid utf-8")
                    /\ UNCHANGED delivered

\* fill_buf returns bytes: those the buffer holds, or else as many as the
\* socket has and the buffer takes
ReadBytes ==
    /\ read_pc = "reading"
    /\ buf # << >> \/ wire # << >>
    /\ IF buf # << >>
         THEN TakeAvailable(buf, << >>, wire)
         ELSE LET n == IF Len(wire) < BUF_CAPACITY THEN Len(wire)
                       ELSE BUF_CAPACITY
              IN TakeAvailable(SubSeq(wire, 1, n), << >>,
                               SubSeq(wire, n + 1, Len(wire)))
    /\ UNCHANGED << client_lines, to_send, eof, hubVars, walkVars, moreVars >>

\* fill_buf returns no byte at the end of the stream: Ok(None) ends the
\* loop when no byte of a line was read, and what was read of an unfinished
\* line is returned as a line otherwise
ReadAtEof ==
    /\ read_pc = "reading"
    /\ buf = << >> /\ wire = << >> /\ eof
    /\ IF line = << >>
         THEN /\ read_pc' = "closed"
              /\ UNCHANGED << line, total_read, delivered, read_errors >>
       ELSE IF from_utf8_ok(line)
         THEN /\ Returned(line)
              /\ UNCHANGED << read_errors, read_pc >>
       ELSE /\ Failed("invalid utf-8")
            /\ UNCHANGED delivered
    /\ UNCHANGED << client_lines, to_send, wire, eof, buf, hubVars,
                    walkVars, moreVars >>

\* fill_buf fails after 200 ms without a byte (WouldBlock or TimedOut): the
\* `?` returns the error, the bytes read_secure_line had taken go with its
\* locals, and handle_client goes round its loop
ReadTimeout ==
    /\ read_pc = "reading"
    /\ buf = << >> /\ wire = << >> /\ ~eof
    /\ line' = << >>
    /\ total_read' = 0
    /\ UNCHANGED << client_lines, to_send, wire, eof, buf, read_pc,
                    delivered, read_errors, hubVars, walkVars, moreVars >>

InitLine == HubIdle /\ WalkIdle /\ LineInit /\ MoreIdle

NextLine ==
    \/ \E n \in 1..(MaxLineLen + 1) : ClientSend(n)
    \/ ClientShutdown
    \/ ReadBytes
    \/ ReadAtEof
    \/ ReadTimeout

SpecLine == InitLine /\ [][NextLine]_vars

(***************************************************************************)
(* Claims about the read loop.                                             *)
(***************************************************************************)
\* a line the reader is to refuse: longer than MAX_LINE_LENGTH with its
\* newline, or no UTF-8
Oversized(l) == Len(l) > MAX_LINE_LENGTH
Refused(l) == Oversized(l) \/ ~from_utf8_ok(l)

\* what the handler is to be given: the client's lines up to the first one
\* the reader refuses, the blank ones left out
RECURSIVE Deliverable(_)
Deliverable(lines) ==
    IF lines = << >> \/ Refused(Head(lines)) THEN << >>
    ELSE IF is_blank(Head(lines)) THEN Deliverable(Tail(lines))
    ELSE << Head(lines) >> \o Deliverable(Tail(lines))

IsPrefix(a, b) == Len(a) <= Len(b) /\ a = SubSeq(b, 1, Len(a))

\* C9 as stated: the handler is given lines of the client only, whole and in
\* order, and none that is longer than MAX_LINE_LENGTH or that follows one;
\* once the read loop has ended the handler has been given every line that
\* precedes the first refused one, and an oversized line has ended the loop
\* with the error "Line too long".
C9_Original ==
    /\ IsPrefix(delivered, Deliverable(client_lines))
    /\ read_pc = "closed"
       => /\ delivered = Deliverable(client_lines)
          /\ (\E i \in 1..Len(client_lines) :
                 /\ Oversized(client_lines[i])
                 /\ \A j \in 1..(i - 1) : ~Refused(client_lines[j]))
             => read_errors = << "Line too long" >>

(***************************************************************************)
(* The desktop application: the commands scan_path and cancel_scan of a    *)
(* window, the registry ScanCancellation and the scan tasks. A command     *)
(* touches the registry inside one critical section of its mutex and is    *)
(* one action; a task is interleaved at its loads of the flag and at its   *)
(* removal from the registry. The walk of a task is abstracted to the      *)
(* number of items it yields.                                              *)
(***************************************************************************)
\* the filters a window may ask for: none, a size range with min > max, an
\* exclude and an include pattern that do not compile
CommandFilters ==
    { default_filters,
      [default_filters EXCEPT !.min_size_bytes = Some(3),
                              !.max_size_bytes = Some(2)],
      [default_filters EXCEPT !.exclude_regex = Some(<< 40, 97 >>)],
      [default_filters EXCEPT !.include_regex = Some(<< 40 >>)] }
\* the arguments of scan_path: a path that exists, with each of the filters;
\* a path that does not
CommandArgs ==
    { [path |-> "exists", options |-> [default_options EXCEPT !.filters = f]] :
        f \in CommandFilters }
    \cup
    { [path |-> "missing", options |-> default_options] }

\* what runs in one behaviour: one window that scans and cancels, or two
\* windows that start a scan less, or a remote client that sends scan
\* requests to the hub of the same process
AppScenarios ==
    { [labels |-> {"main"}, scans |-> MaxLocalScans,
       hub |-> [token |-> None, headless |-> FALSE, conns |-> 0, warm |-> 0,
                reqs |-> 0, lines |-> {}, badtoken |-> FALSE,
                faults |-> FALSE]],
      [labels |-> Labels, scans |-> MaxLocalScans - 1,
       hub |-> [token |-> None, headless |-> FALSE, conns |-> 0, warm |-> 0,
                reqs |-> 0, lines |-> {}, badtoken |-> FALSE,
                faults |-> FALSE]],
      [labels |-> {}, scans |-> 0,
       hub |-> [token |-> None, headless |-> FALSE, conns |-> 1, warm |-> 1,
                reqs |-> MaxRequests - 1, lines |-> {"scan"},
                badtoken |-> FALSE, faults |-> FALSE]] }

\* the process after start_remote_server, no command invoked yet
AppInit ==
    /\ \E sc \in AppScenarios :
          /\ limits = sc.hub
          /\ app_limits = [labels |-> sc.labels, scans |-> sc.scans]
    /\ HubStarted
    /\ cancellations = << >>
    /\ task_flag = [s \in LocalScans |-> FALSE]
    /\ task_pc = [s \in LocalScans |-> "none"]
    /\ task_label = [s \in LocalScans |-> None]
    /\ task_todo = [s \in LocalScans |-> 0]
    /\ task_event = [s \in LocalScans |-> "none"]
    /\ app_call = NoCall

FreeTasks == {s \in 1..app_limits.scans : task_pc[s] = "none"}
NextTask == CHOOSE s \in FreeTasks : \A t \in FreeTasks : s <= t

\* HashMap::remove
MapRemove(map, key) == [k \in DOMAIN map \ {key} |-> map[k]]

\* a scan_path that registers the scan without building its configuration
scan_path_refusal_unvalidated(path, options) ==
    IF path # "exists" THEN "Path does not exist" ELSE ""

\* scan_path, lines 430-435: the error the command returns before it touches
\* the registry, or "" when it goes on
scan_path_refusal(path, options) ==
    IF path # "exists" THEN "Path does not exist"
    ELSE IF ~build_scan_config(options).ok
      THEN build_scan_config(options).error
    ELSE ""

\* the command scan_path of window `label`
ScanPath(label, path, options) ==
    /\ label \in app_limits.labels
    /\ LET refusal == scan_path_refusal(path, options) IN
       IF refusal # ""
         THEN /\ app_call' = [cmd |-> "scan_path", label |-> label,
                               path |-> path, options |-> options,
                               result |-> refusal]
              /\ UNCHANGED << cancellations, task_flag, task_pc, task_label,
                              task_todo, task_event >>
         ELSE /\ FreeTasks # {}
              /\ task_flag' =
                   IF label \in DOMAIN cancellations
                     THEN [task_flag EXCEPT ![cancellations[label]] = TRUE]
                     ELSE task_flag
              /\ cancellations' = MapPut(cancellations, label, NextTask)
              /\ task_pc' = [task_pc EXCEPT ![NextTask] = "run_scan"]
              /\ task_label' = [task_label EXCEPT ![NextTask] = Some(label)]
              /\ \E n \in {1, MaxEntries} :
                    task_todo' = [task_todo EXCEPT ![NextTask] = n]
              /\ app_call' = [cmd |-> "scan_path", label |-> label,
                               path |-> path, options |-> options,
                               result |-> "Ok"]
              /\ UNCHANGED task_event
    /\ UNCHANGED << app_limits, hubVars, walkVars, lineVars, filterVars,
                    accepted, clientVars >>

\* the command cancel_scan of window `label`
CancelScan(label) ==
    /\ label \in app_limits.labels
    /\ task_flag' =
         IF label \in DOMAIN cancellations
           THEN [task_flag EXCEPT ![cancellations[label]] = TRUE]
           ELSE task_flag
    /\ app_call' = [cmd |-> "cancel_scan", label |-> label, result |-> "Ok"]
    /\ UNCHANGED << cancellations, task_pc, task_label, task_todo,
                    task_event, app_limits, hubVars, walkVars, lineVars,
                    filterVars, accepted,
                    clientVars >>

\* one turn of run_scan's loop in the task of scan s: the walk is exhausted
\* and Complete is emitted, or the flag is loaded and found set and
\* Cancelled is emitted, or the item is worked on
TaskWalk(s) ==
    /\ task_pc[s] = "run_scan"
    /\ IF task_todo[s] = 0
         THEN /\ task_event' = [task_event EXCEPT ![s] = "Complete"]
              /\ task_pc' = [task_pc EXCEPT ![s] = "remove"]
              /\ UNCHANGED task_todo
         ELSE IF task_flag[s]
           THEN /\ task_event' = [task_event EXCEPT ![s] = "Cancelled"]
                /\ task_pc' = [task_pc EXCEPT ![s] = "remove"]
                /\ UNCHANGED task_todo
           ELSE /\ task_todo' = [task_todo EXCEPT ![s] = @ - 1]
                /\ UNCHANGED << task_event, task_pc >>
    /\ UNCHANGED << cancellations, task_flag, task_label, app_call,
                    app_limits, hubVars, walkVars, lineVars, filterVars,
                    accepted, clientVars >>

\* the end of a task that removes the entry only after a scan that completed
TaskRemove_unless_cancelled(s) ==
    /\ task_pc[s] = "remove"
    /\ cancellations' =
         IF task_event[s] = "Complete"
           THEN MapRemove(cancellations, task_label[s][1])
           ELSE cancellations
    /\ task_pc' = [task_pc EXCEPT ![s] = "done"]
    /\ UNCHANGED << task_flag, task_label, task_todo, task_event, app_call,
                    app_limits, hubVars, walkVars, lineVars, filterVars,
                    accepted, clientVars >>

\* the end of the task, lines 458-461: map.remove(&label_for_task)
TaskRemove(s) ==
    /\ task_pc[s] = "remove"
    /\ cancellations' = MapRemove(cancellations, task_label[s][1])
    /\ task_pc' = [task_pc EXCEPT ![s] = "done"]
    /\ UNCHANGED << task_flag, task_label, task_todo, task_event, app_call,
                    app_limits, hubVars, walkVars, lineVars, filterVars,
                    accepted, clientVars >>

InitApp ==
    AppInit /\ WalkIdle /\ LineIdle /\ FilterIdle /\ accepted = << >> /\ ClientIdle

NextApp ==
    \/ \E label \in Labels, args \in CommandArgs :
          ScanPath(label, args.path, args.options)
    \/ \E label \in Labels : CancelScan(label)
    \/ \E s \in LocalScans : TaskWalk(s)
    \/ \E s \in LocalScans : TaskRemove(s)
    \/ \E c \in Conns : \E req \in Requests(c, token, limits.lines \cap Actions) :
                            ReadRequest(c, req)
    \/ \E c \in Conns : HandleScan(c)
    \/ \E c \in Conns : HandleScanStart(c)
    \/ \E s \in ScanIds : ScanNext(s)
    \/ \E s \in ScanIds : ScanEntry(s)
    \/ \E s \in ScanIds : FinishScanStore(s)
    \/ \E s \in ScanIds : FinishScanClear(s)
    \/ \E c \in Conns : WriteLine(c)

SpecApp == InitApp /\ [][NextApp]_vars

(***************************************************************************)
(* Claims about the desktop application.                                   *)
(***************************************************************************)
\* the scans of window `label` that are inside run_scan and whose flag is
\* not set
Unsignalled(label) ==
    {s \in LocalScans : /\ task_pc[s] = "run_scan"
                        /\ task_label[s] = Some(label)
                        /\ ~task_flag[s]}

\* C13 as stated, read in the claim's favour (a scan that was signalled and
\* has not yet loaded its flag is not counted as running): for every window
\* label, at most one scan that has not been signalled is running, because
\* scan_path signals the scan that runs for the label before it starts the
\* new one.
C13_Original ==
    \A label \in Labels : Cardinality(Unsignalled(label)) <= 1

\* a filter that build_filter_config refuses
InvalidFilter(f) ==
    \/ /\ f.min_size_bytes # None /\ f.max_size_bytes # None
       /\ f.min_size_bytes[1] > f.max_size_bytes[1]
    \/ f.include_regex # None /\ ~regex_compiles(f.include_regex[1])
    \/ f.exclude_regex # None /\ ~regex_compiles(f.exclude_regex[1])

\* C14: a scan_path whose filter has min > max or a pattern that does not
\* compile returns an error and changes neither the registry nor any flag
\* nor any task; a remote scan request with such options is answered with
\* an error (carrying its id), not with scan-started, and changes neither
\* the slot nor the cancel handle nor any scan.
C14_InvalidFilterRefused ==
    /\ [][(/\ app_call' # app_call
            /\ app_call'.cmd = "scan_path"
            /\ InvalidFilter(app_call'.options.filters))
           => /\ app_call'.result # "Ok"
              /\ UNCHANGED << cancellations, task_flag, task_pc, task_label,
                              task_todo, task_event >>
         ]_vars
    /\ [][\A c \in Conns :
            (/\ Dispatching(c, "scan") /\ ReaderSteps(c)
             /\ cur[c].options = "invalid")
            => /\ UNCHANGED << slotVars, scanVars >>
               /\ conn'[c] = "reading"
               /\ queue' = send_remote_event(queue, c,
                     send_remote_error(cur[c].id,
                        IF cur[c].path # "exists" THEN "path-not-found"
                        ELSE "invalid-options"))
         ]_vars

\* C14 witness: a window whose scan is running and not signalled has had a
\* scan_path with an invalid filter refused.
C14_Witness ==
    /\ app_call.cmd = "scan_path"
    /\ app_call.path = "exists"
    /\ InvalidFilter(app_call.options.filters)
    /\ app_call.result # "Ok"
    /\ app_call.label \in DOMAIN cancellations
    /\ cancellations[app_call.label] \in Unsignalled(app_call.label)

(***************************************************************************)
(* One filter: the ScanFilters of a request are compiled by                *)
(* build_filter_config and the compiled filter is asked one decision,      *)
(* should_include_file or should_skip_dir.                                 *)
(***************************************************************************)
\* the largest file size a decision is asked about
MaxFileSize == 3

\* the raw filters: every criterion absent or present. Extension "b" and
\* " .B"; names "B" and " ", "d"; sizes from 1 or 3, up to 2; patterns "c"
\* and "(" to include, "d/." and "r" to exclude; paths "/E" and "/r/a"
FilterInputs ==
    [include_extensions : {<< >>, << << 98 >> >>},
     exclude_extensions : {<< >>, << << 32, 46, 66 >> >>},
     include_names : {<< >>, << << 66 >> >>},
     exclude_names : {<< >>, << << 32 >>, << 100 >> >>},
     min_size_bytes : {None, Some(1), Some(3)},
     max_size_bytes : {None, Some(2)},
     include_regex : {None, Some(<< 99 >>), Some(<< 40 >>)},
     exclude_regex : {None, Some(<< 100, 47, 46 >>), Some(<< 114 >>)},
     include_paths : {<< >>, << << 47, 69 >> >>},
     exclude_paths : {<< >>, << << 47, 114, 47, 97 >> >>}]

\* the paths a decision is asked about: the root and what the universe of
\* the trees holds
FilterPaths == {RootPath} \cup {e.path : e \in Universe}

FilterInit ==
    /\ raw_filters \in {Some(f) : f \in FilterInputs}
    /\ filter_config = None
    /\ filter_call = None

\* build_filter_config(&options.filters)
CompileFilter ==
    /\ raw_filters # None
    /\ filter_config = None
    /\ filter_config' = Some(build_filter_config(raw_filters[1]))
    /\ UNCHANGED << raw_filters, filter_call, hubVars, walkVars, lineVars,
                    appVars, accepted, clientVars >>

\* should_include_file(&entry_path, size, &config.filters)
IncludeFile(path, size_bytes) ==
    /\ filter_config # None
    /\ filter_config[1].ok
    /\ filter_call = None
    /\ filter_call' =
         Some([fn |-> "should_include_file", path |-> path,
               size_bytes |-> size_bytes,
               out |-> should_include_file(path, size_bytes,
                                           filter_config[1].config)])
    /\ UNCHANGED << raw_filters, filter_config, hubVars, walkVars, lineVars,
                    appVars, accepted, clientVars >>

\* should_skip_dir(&root, &entry_path, &config.filters)
SkipDirectory(root, path) ==
    /\ filter_config # None
    /\ filter_config[1].ok
    /\ filter_call = None
    /\ filter_call' =
         Some([fn |-> "should_skip_dir", root |-> root, path |-> path,
               out |-> should_skip_dir(root, path, filter_config[1].config)])
    /\ UNCHANGED << raw_filters, filter_config, hubVars, walkVars, lineVars,
                    appVars, accepted, clientVars >>

InitFilter ==
    /\ HubIdle /\ WalkIdle /\ LineIdle /\ AppIdle /\ FilterInit
    /\ accepted = << >> /\ ClientIdle

NextFilter ==
    \/ CompileFilter
    \/ \E path \in FilterPaths, size_bytes \in 0..MaxFileSize :
          IncludeFile(path, size_bytes)
    \/ \E path \in FilterPaths : SkipDirectory(RootPath, path)

SpecFilter == InitFilter /\ [][NextFilter]_vars

(***************************************************************************)
(* The filter decisions, stated on the criteria of the compiled filter     *)
(* without its applicability flags.                                        *)
(***************************************************************************)
\* the compiled filter, and the decision asked of it
Compiled == filter_config[1].config
AskedInclude == filter_call # None /\ filter_call[1].fn = "should_include_file"
AskedSkip == filter_call # None /\ filter_call[1].fn = "should_skip_dir"

\* what the criteria are matched against: the lower-cased full path, the
\* lower-cased name, the lower-cased extension
LowerPath(path) == to_lowercase(get_path_string(path))
LowerExtension(path) ==
    IF extension(path) = None THEN None
    ELSE Some(to_lowercase(extension(path)[1]))

RegexMatches(regex, path) == regex # None /\ is_match(regex[1], LowerPath(path))
SubstringMatches(values, text) ==
    \E i \in 1..Len(values) : contains(text, values[i])
ExtensionMatches(values, path) ==
    LowerExtension(path) # None /\ LowerExtension(path)[1] \in values

DirExcludeMatches(f, path) ==
    \/ RegexMatches(f.exclude_regex, path)
    \/ SubstringMatches(f.exclude_paths, LowerPath(path))
    \/ SubstringMatches(f.exclude_names, get_entry_name_lower(path))
ExcludeMatches(f, path) ==
    DirExcludeMatches(f, path) \/ ExtensionMatches(f.exclude_extensions, path)
IncludeMatches(f, path) ==
    \/ RegexMatches(f.include_regex, path)
    \/ SubstringMatches(f.include_paths, LowerPath(path))
    \/ SubstringMatches(f.include_names, get_entry_name_lower(path))
    \/ ExtensionMatches(f.include_extensions, path)
IncludeConfigured(f) ==
    \/ f.include_regex # None
    \/ f.include_paths # << >>
    \/ f.include_names # << >>
    \/ f.include_extensions # {}
SizeWithinBounds(f, size_bytes) ==
    /\ f.min_size_bytes # None => f.min_size_bytes[1] <= size_bytes
    /\ f.max_size_bytes # None => size_bytes <= f.max_size_bytes[1]

\* C17: a file that matches at least one exclude criterion (the exclude
\* pattern, an exclude path substring, an exclude name substring or an
\* exclude extension) is rejected by should_include_file, also when it
\* matches include criteria.
C17_ExcludeTakesPrecedence ==
    (AskedInclude /\ ExcludeMatches(Compiled, filter_call[1].path))
      => ~filter_call[1].out

\* a file within the size bounds that matches an exclude criterion and an
\* include criterion has been rejected
C17_Witness ==
    /\ AskedInclude
    /\ SizeWithinBounds(Compiled, filter_call[1].size_bytes)
    /\ ExcludeMatches(Compiled, filter_call[1].path)
    /\ IncludeMatches(Compiled, filter_call[1].path)
    /\ ~filter_call[1].out

\* C18: should_include_file accepts exactly when the size is within every
\* configured bound, no exclude criterion matches, and either no include
\* criterion is configured or at least one include criterion matches; the
\* applicability flags of the compiled filter never change this result.
C18_IncludeDecision ==
    AskedInclude
      => (filter_call[1].out
            <=> /\ SizeWithinBounds(Compiled, filter_call[1].size_bytes)
                /\ ~ExcludeMatches(Compiled, filter_call[1].path)
                /\ \/ ~IncludeConfigured(Compiled)
                   \/ IncludeMatches(Compiled, filter_call[1].path))

\* a file has been accepted under a filter with both size bounds, exclude
\* names and include extensions, by its extension alone
C18_Witness ==
    /\ AskedInclude
    /\ filter_call[1].out
    /\ Compiled.min_size_bytes # None
    /\ Compiled.max_size_bytes # None
    /\ Compiled.exclude_names # << >>
    /\ Compiled.include_regex = None
    /\ Compiled.include_paths = << >>
    /\ Compiled.include_names = << >>
    /\ ExtensionMatches(Compiled.include_extensions, filter_call[1].path)

\* C19: should_skip_dir returns false for the traversal root under every
\* filter; for any other directory it returns true exactly when the exclude
\* pattern, an exclude path substring or an exclude name substring matches
\* it; exclude extensions never cause a directory to be skipped.
C19_SkipDecision ==
    AskedSkip
      => (filter_call[1].out
            <=> /\ filter_call[1].path # filter_call[1].root
                /\ DirExcludeMatches(Compiled, filter_call[1].path))

\* a directory other than the root whose extension is an exclude extension
\* has been kept, under a filter that has directory excludes as well
C19_Witness ==
    /\ AskedSkip
    /\ filter_call[1].path # filter_call[1].root
    /\ ExtensionMatches(Compiled.exclude_extensions, filter_call[1].path)
    /\ Compiled.exclude_names # << >>
    /\ ~filter_call[1].out

(***************************************************************************)
(* The largest-files list on its own: files are accepted one after the     *)
(* other, each path once, with sizes of any order and with ties (run_scan  *)
(* 530-547 for a file that passed should_include_file).                    *)
(***************************************************************************)
\* the files that can be accepted: the files of the universe of the trees
TopPaths == {e.path : e \in {u \in Universe : u.kind = "file"}}

AcceptedPaths == {accepted[i].path : i \in 1..Len(accepted)}

\* update_largest_files(&mut largest_files, &entry_path, size, 10)
AcceptFile(path, size_bytes) ==
    /\ path \notin AcceptedPaths
    /\ largest_files' =
         update_largest_files(largest_files, path, size_bytes, LARGEST_LIMIT)
    /\ accepted' = Append(accepted, [path |-> path, size_bytes |-> size_bytes])
    /\ UNCHANGED << fs, scan_args, cancel, walk_pc, unvisited, dir_stack,
                    entry, stats, children, files_by_parent,
                    last_emitted_bytes, processed, sleeps, events, result,
                    cancel_req, hubVars, lineVars, appVars, filterVars,
                    clientVars >>

InitTop ==
    /\ HubIdle /\ WalkIdle /\ LineIdle /\ AppIdle /\ FilterIdle
    /\ accepted = << >> /\ ClientIdle

NextTop ==
    \E path \in TopPaths, size_bytes \in 0..MaxFileSize :
       AcceptFile(path, size_bytes)

SpecTop == InitTop /\ [][NextTop]_vars

\* the accepted files of size > 0, and the smaller of two numbers
AcceptedPositive == {i \in 1..Len(accepted) : accepted[i].size_bytes > 0}
Min(a, b) == IF a <= b THEN a ELSE b

AcceptedAtLeast(v) ==
    Cardinality({i \in 1..Len(accepted) : accepted[i].size_bytes >= v})
LargestOfSize(v, limit) ==
    Min(limit, AcceptedAtLeast(v)) - Min(limit, AcceptedAtLeast(v + 1))
ListedOfSize(v) ==
    Cardinality({i \in 1..Len(largest_files) : largest_files[i].size_bytes = v})

\* C30: after any sequence of accepted files, the sizes held in the list
\* are exactly the `limit` largest positive sizes among the accepted files
\* seen so far (all positive sizes if fewer such files were seen), counted
\* with their multiplicity.
C30_LargestSizes ==
    /\ \A v \in 1..MaxFileSize : ListedOfSize(v) = LargestOfSize(v, LARGEST_LIMIT)
    /\ \A i \in 1..Len(largest_files) :
          largest_files[i].size_bytes \in 1..MaxFileSize

\* the list was full when the last file was accepted, and that file has
\* displaced a smaller one: a file of positive size accepted earlier is not
\* listed and the last one is
C30_Witness ==
    /\ Len(accepted) > LARGEST_LIMIT
    /\ \E i \in 1..(Len(accepted) - 1) :
          /\ accepted[i].size_bytes > 0
          /\ accepted[i].size_bytes < accepted[Len(accepted)].size_bytes
          /\ \A k \in 1..Len(largest_files) :
                largest_files[k].path # get_path_string(accepted[i].path)
    /\ \E k \in 1..Len(largest_files) :
          largest_files[k].path = get_path_string(accepted[Len(accepted)].path)

\* the tasks of a window that have been spawned and have not ended
RunningTasks(label) ==
    {s \in LocalScans : /\ task_label[s] = Some(label)
                        /\ task_pc[s] \in {"run_scan", "remove"}}

\* C27: when the task of a local scan ends, after Complete or Cancelled
\* alike, the registry entry of its window is removed; once no task is
\* running for a window the registry holds no entry for it.
C27_EntryRemovedAtExit ==
    /\ [](\A label \in Labels :
            RunningTasks(label) = {} => label \notin DOMAIN cancellations)
    /\ [][\A s \in LocalScans :
            (task_pc[s] = "remove" /\ task_pc'[s] = "done")
              => task_label[s][1] \notin DOMAIN cancellations']_vars

\* two scans of one window have ended, one cancelled and one complete, no
\* task is running and the registry is empty
C27_Witness ==
    /\ \E s, t \in LocalScans :
          /\ task_pc[s] = "done" /\ task_event[s] = "Cancelled"
          /\ task_pc[t] = "done" /\ task_event[t] = "Complete"
          /\ task_label[s] = task_label[t]
    /\ \A label \in Labels : RunningTasks(label) = {}
    /\ cancellations = << >>


(***************************************************************************)
(* The counts of a snapshot, against the maps of run_scan at the moment    *)
(* the snapshot is built.                                                  *)
(***************************************************************************)
\* the recursive counts of a directory: its own direct stats plus the
\* recursive counts of every child recorded for it; bytes in the width of
\* the counter
RECURSIVE RecursiveCounts(_, _, _)
RECURSIVE ChildrenCounts(_, _, _)
ChildrenCounts(smap, chmap, kids) ==
    IF kids = << >> THEN [bytes |-> 0, files |-> 0, dirs |-> 0]
    ELSE LET a == RecursiveCounts(smap, chmap, kids[1])
             b == ChildrenCounts(smap, chmap, Tail(kids))
         IN [bytes |-> (a.bytes + b.bytes) % (2 ^ U64_BITS),
             files |-> a.files + b.files,
             dirs |-> a.dirs + b.dirs]
RecursiveCounts(smap, chmap, path) ==
    LET own == MapGet(smap, path, NodeStats)
        kids == ChildrenCounts(smap, chmap, MapGet(chmap, path, << >>))
    IN [bytes |-> (own.direct_bytes + kids.bytes) % (2 ^ U64_BITS),
        files |-> own.direct_files + kids.files,
        dirs |-> own.direct_dirs + kids.dirs]

\* the nodes a snapshot renders
RECURSIVE RenderedNodes(_)
RenderedNodes(node) ==
    {node} \cup UNION {RenderedNodes(node.children[i]) :
                         i \in 1..Len(node.children)}

KnownPaths == {RootPath} \cup {e.path : e \in fs}

SnapshotCounts(summary, smap, chmap) ==
    \A n \in RenderedNodes(summary.root) :
       \E p \in KnownPaths :
          /\ get_path_string(p) = n.path
          /\ n.size_bytes = RecursiveCounts(smap, chmap, p).bytes
          /\ n.file_count = RecursiveCounts(smap, chmap, p).files
          /\ n.dir_count = RecursiveCounts(smap, chmap, p).dirs

\* C29: in every emitted snapshot, progress or final, the size, the file
\* count and the directory count of each node equal its own direct stats
\* plus the sums of the recursive counts of all its recorded children, those
\* left out of the rendered list by the depth limit or the child cap
\* included.
C29_NodeCounts ==
    [][(/\ Len(events') = Len(events) + 1
        /\ events'[Len(events')].kind \in {"Progress", "Complete"})
         => SnapshotCounts(events'[Len(events')].summary, stats', children')
      ]_vars

\* one Progress snapshot renders a child of the root that counts a directory
\* it does not render (the depth limit), another counts more directories
\* below the root than its MAX_CHILDREN rendered children account for (the
\* child cap), and the final snapshot has been emitted
C29_Witness ==
    /\ \E i \in 1..Len(events) :
          /\ events[i].kind = "Progress"
          /\ \E k \in 1..Len(events[i].summary.root.children) :
                /\ events[i].summary.root.children[k].dir_count > 0
                /\ events[i].summary.root.children[k].children = << >>
    /\ \E j \in 1..Len(events) :
          /\ events[j].kind = "Progress"
          /\ Len(events[j].summary.root.children) = MAX_CHILDREN
          /\ events[j].summary.root.dir_count
               > sum_dirs(events[j].summary.root.children)
    /\ events # << >> /\ events[Len(events)].kind = "Complete"


(***************************************************************************)
(* Claims about the hub's channels and its client list.                    *)
(***************************************************************************)
\* C25: for each connection, the lines written to its socket are a prefix
\* of the messages submitted to its channel, in submission order: every
\* step leaves a channel as it is, appends one message at its end (a reply
\* of the reader thread or a broadcast of the scan thread), takes the line
\* at its head to write it, or drops what is left with the receiver; nothing
\* is reordered, lost in the middle or written twice.
C25_SubmissionOrder ==
    [][\A c \in Conns :
         \/ queue'[c] = queue[c]
         \/ /\ rx[c] /\ rx'[c]
            /\ Len(queue'[c]) = Len(queue[c]) + 1
            /\ SubSeq(queue'[c], 1, Len(queue[c])) = queue[c]
         \/ /\ rx[c] /\ rx'[c]
            /\ queue[c] # << >>
            /\ queue'[c] = Tail(queue[c])
         \/ /\ rx[c] /\ ~rx'[c]
            /\ queue'[c] = << >>
      ]_vars

\* the scan-started reply of a client's scan has been written, and its
\* channel holds a broadcast of the scan thread, then a reply of its reader
\* thread, then the terminal broadcast
C25_Witness ==
    \E c \in Conns, s \in ScanIds :
       /\ scan_id[s] = ReqId(c)
       /\ Len(queue[c]) = 3
       /\ queue[c][1] = Msg("scan-progress", ReqId(c), "")
       /\ queue[c][2] = Msg("cancel-requested", ReqId(c), "")
       /\ queue[c][3] = Msg("scan-cancelled", ReqId(c), "Scan cancelled")

\* C26: after a write to a disconnected client has failed, the next
\* broadcast removes that client from the hub's client list, every other
\* registered client still receives the broadcast, and the running scan is
\* not aborted: neither the failed write nor the broadcast touches the slot,
\* the cancel handle or any cancellation flag, and the scan thread goes on
\* to its next entry or, after its terminal event, to finish_scan.
C26_DeadClientPruned ==
    /\ [][\A s \in ScanIds :
            (/\ InRunScan(s)
             /\ scan_pc'[s] # scan_pc[s]
             /\ << queue, clients >>' # << queue, clients >>)
            => \E e \in {"Progress", "Complete", "Cancelled"} :
                  /\ \A c \in Conns :
                        /\ (\E i \in 1..Len(clients') : clients'[i] = c)
                             <=> (InClients(c) /\ rx[c])
                        /\ queue'[c] =
                             IF InClients(c) /\ rx[c]
                               THEN Append(queue[c],
                                           emit_to_remote(e, scan_id[s]))
                               ELSE queue[c]
                  /\ scan_pc'[s] = IF e = "Progress" THEN "walk" ELSE "finish"
                  /\ UNCHANGED << slotVars, scan_id >>
         ]_vars
    /\ [][\A c \in Conns :
            (rx[c] /\ ~rx'[c])
              => UNCHANGED << slotVars, scanVars, clients >>]_vars

\* the client that started the scan has closed, the write to it has failed
\* and a broadcast has removed it from the list; the other client holds a
\* progress event and the scan is still walking
C26_Witness ==
    \E c, d \in Conns, s \in ScanIds :
       /\ c # d
       /\ scan_id[s] = ReqId(c)
       /\ peer_closed[c] /\ ~rx[c] /\ ~InClients(c)
       /\ InClients(d)
       /\ InQueue(d, Msg("scan-progress", ReqId(c), ""))
       /\ InRunScan(s)


(***************************************************************************)
(* The hub serving two connections of which one misbehaves.                *)
(***************************************************************************)
\* two clients of a hub with a token, of which one scans while the other
\* sends lines that are no request, lines read_secure_line refuses and
\* requests with a missing or wrong token
ServeScenarios ==
    { [token |-> Some("secret"), headless |-> FALSE, conns |-> 2, warm |-> 2,
       reqs |-> MaxRequests - 1,
       lines |-> {"scan", "invalid_json", "bad_line"},
       badtoken |-> TRUE, faults |-> FALSE] }

InitServe ==
    /\ limits \in ServeScenarios
    /\ HubStarted
    /\ WalkIdle /\ LineIdle /\ MoreIdle

NextServe ==
    \/ AcceptWouldBlock
    \/ \E c \in Conns : ReadTimeoutOrBlank(c)
    \/ \E c \in Conns : ReadError(c)
    \/ \E c \in Conns : ReadInvalidJson(c)
    \/ \E c \in Conns : \E req \in Requests(c, token, limits.lines \cap Actions) :
                            ReadRequest(c, req)
    \/ \E c \in Conns : UnauthorizedDelay(c)
    \/ \E c \in Conns : UnauthorizedReply(c)
    \/ \E c \in Conns : HandleScan(c)
    \/ \E c \in Conns : HandleScanStart(c)
    \/ \E s \in ScanIds : ScanNext(s)
    \/ \E s \in ScanIds : ScanEntry(s)
    \/ \E s \in ScanIds : FinishScanStore(s)
    \/ \E s \in ScanIds : FinishScanClear(s)
    \/ \E c \in Conns : WriteLine(c)

SpecServe == InitServe /\ [][NextServe]_vars

\* the steps of connection c on a line that is no request, on a line
\* read_secure_line refuses, and in the unauthorized branch
MalformedLine(c) ==
    conn[c] = "reading" /\ conn' = conn /\ nreq' = nreq + 1
RefusedLine(c) ==
    conn[c] = "reading" /\ conn'[c] = "closed" /\ ~peer_closed[c]
UnauthorizedStep(c) ==
    \/ conn[c] = "reading" /\ conn'[c] = "auth_delay"
    \/ conn[c] = "auth_delay" /\ conn'[c] = "auth_reply"
    \/ conn[c] = "auth_reply" /\ conn'[c] = "reading"

\* C24: a malformed JSON line, an oversized line or an unauthorized request
\* on one connection changes no hub state (the scan slot, the cancel handle,
\* the flags, the scans, the client list, the accept loop), sends no message
\* to any other connection and closes no other connection: the other
\* connections stand where they stood and go on being served. The sender of
\* the line gets the error invalid_json, is closed, or gets the error
\* unauthorized.
C24_BadLineIsLocal ==
    [][(\E c \in Conns :
          MalformedLine(c) \/ RefusedLine(c) \/ UnauthorizedStep(c))
       => \E c \in Conns :
            /\ MalformedLine(c) \/ RefusedLine(c) \/ UnauthorizedStep(c)
            /\ UNCHANGED << slotVars, scanVars, clients, rx, acceptVars >>
            /\ \A d \in Conns \ {c} :
                  /\ conn'[d] = conn[d]
                  /\ cur'[d] = cur[d]
                  /\ queue'[d] = queue[d]
            /\ queue'[c] \in
                 {queue[c],
                  Append(queue[c], send_remote_error(None, "invalid_json")),
                  Append(queue[c], send_remote_error(cur[c].id, "unauthorized"))}
      ]_vars

\* while the scan of one client is walking and holds the cancel handle, the
\* other client has sent a line that is no request, a request with a bad
\* token or a line that was refused: it holds the error or is closed, and
\* the first client is registered and being read
C24_Witness ==
    \E c, d \in Conns, s \in ScanIds :
       /\ c # d
       /\ InRunScan(s) /\ scan_id[s] = ReqId(c) /\ scan_cancel = Some(s)
       /\ InClients(c) /\ conn[c] = "reading"
       /\ InQueue(c, Msg("scan-progress", ReqId(c), ""))
       /\ \/ conn[d] = "closed"
          \/ InQueue(d, send_remote_error(None, "invalid_json"))
          \/ InQueue(d, send_remote_error(ReqId(d), "unauthorized"))

(***************************************************************************)
(* A headless hub that is asked to shut down.                              *)
(***************************************************************************)
\* two clients of a headless hub that ping and ask for shutdown
ShutdownScenarios ==
    { [token |-> None, headless |-> TRUE, conns |-> 2, warm |-> 2,
       reqs |-> MaxRequests, lines |-> {"ping", "shutdown"},
       badtoken |-> FALSE, faults |-> FALSE] }

InitShutdown ==
    /\ limits \in ShutdownScenarios
    /\ HubStarted
    /\ WalkIdle /\ LineIdle /\ MoreIdle

NextShutdown ==
    \/ AcceptShutdown
    \/ AcceptWouldBlock
    \/ \E c \in Conns : ReadTimeoutOrBlank(c)
    \/ \E c \in Conns : \E req \in Requests(c, token, limits.lines \cap Actions) :
                            ReadRequest(c, req)
    \/ \E c \in Conns : HandlePing(c)
    \/ \E c \in Conns : HandleShutdown(c)
    \/ \E c \in Conns : WriteLine(c)

\* Every thread of the hub that can take a step eventually takes one: the
\* accept thread polls its shutdown channel every 50ms, the readers inside
\* a handler run, the writers write what their channels hold. A reader
\* waiting for a line wakes every 200ms and goes back to read_secure_line:
\* the timeout changes nothing (ReadTimeoutOrBlank).
FairSpecShutdown ==
    /\ InitShutdown /\ [][NextShutdown]_vars
    /\ WF_vars(AcceptShutdown)
    /\ WF_vars(ThreadStep)
    /\ \A c \in Conns : WF_vars(WriteLine(c))

\* C28 as stated: after the shutdown signal is raised the accept loop exits
\* and every connection reader terminates, so that no connection of the hub
\* keeps being served.
C28_Original ==
    (shutdown_sig > 0)
      ~> (accept_pc = "exited" /\ \A c \in Conns : conn[c] \in {"none", "closed"})


(***************************************************************************)
(* The outbound client (main.rs:1439-1630): the commands remote_connect,   *)
(* remote_disconnect and remote_send of the desktop application, and the   *)
(* reader and writer thread of each connection it opens. The commands run  *)
(* one at a time (each holds the state's mutex from its lock to its        *)
(* return); the threads and the remote ends move between the blocking      *)
(* calls of a command: TcpStream::connect and the join of a reader.        *)
(* A read that times out and a line received from the hub change nothing   *)
(* of this state and are left out.                                         *)
(***************************************************************************)
\* the addresses format!("{}:{}", host.trim(), port) yields for the hosts
\* and ports the user enters
Addresses == {"hub-a:7", "hub-b:7"}
\* payload.token of remote_connect
ClientTokens == {None, Some("secret")}

\* serde_json::Value: an object is its set of (key, value) pairs
JsonObject(map) == [kind |-> "object", map |-> map]
JsonNull == [kind |-> "null", map |-> {}]
JsonString == [kind |-> "string", map |-> {}]
\* the payloads handed to remote_send (RemoteSendPayload; a missing
\* payload is Null)
SendPayloads ==
    { JsonNull, JsonString,
      JsonObject({<< "action", "ping" >>}),
      JsonObject({<< "action", "ping" >>, << "token", "own" >>}) }

Ok(value) == [ok |-> TRUE, value |-> value]
Err(error) == [ok |-> FALSE, value |-> error]

\* format!("{}\n", value): the JSON text of the value and a line feed
JsonLine(value) == << value, "\n" >>

\* build_remote_payload (1453-1466): map.entry("token").or_insert_with
build_remote_payload(payload, tok) ==
    IF tok # None
      THEN IF payload.kind = "object"
             THEN Ok(JsonLine(JsonObject(
                      IF \E p \in payload.map : p[1] = "token"
                        THEN payload.map
                        ELSE payload.map \cup {<< "token", tok[1] >>})))
             ELSE Err("Payload must be an object")
      ELSE Ok(JsonLine(payload))

\* emit_remote_status (1439-1451)
StatusEvent(status, message, address) ==
    [status |-> status, message |-> message, address |-> address]

\* the local handles of connection k's socket: the stream is owned by the
\* command from TcpStream::connect to spawn_remote_client, then by the
\* reader thread; its clone by the writer thread
StreamOpen(k) ==
    \/ remote_call.link = Some(k)
    \/ links[k].reader \in {"loop", "left"}
    \/ links[k].writer = "running"

UnusedLinks == {k \in Links : links[k] = NoLink}

idleVars == << hubVars, walkVars, lineVars, appVars, filterVars, accepted >>

\* the command may start: no other command holds the mutex
CommandStarts ==
    /\ remote_call = NoRemoteCall
    /\ calls < MaxCalls
    /\ calls' = calls + 1

\* remote_connect, TcpStream::connect fails (1543-1552): the statuses
\* "connecting" and "error", the state is not touched
ConnectFailed(address) ==
    /\ CommandStarts
    /\ status_events' = status_events \o
          << StatusEvent("connecting", None, Some(address)),
             StatusEvent("error", Some("Failed to connect"), Some(address)) >>
    /\ UNCHANGED << remote_client, links, remote_call, send_result, idleVars >>

\* remote_connect up to the return of TcpStream::connect (1541-1553): the
\* connection to the hub is established
ConnectOpened(k, address, tok) ==
    /\ CommandStarts
    /\ k \in UnusedLinks /\ \A j \in UnusedLinks : k <= j
    /\ status_events' =
          Append(status_events, StatusEvent("connecting", None, Some(address)))
    /\ links' = [links EXCEPT ![k] =
                    [NoLink EXCEPT !.address = Some(address), !.token = tok,
                                   !.peer = "open"]]
    /\ remote_call' = [op |-> "remote_connect", pc |-> "lock",
                       link |-> Some(k), existing |-> None]
    /\ UNCHANGED << remote_client, send_result, idleVars >>

\* stop_remote_client up to its join (1473-1475): signal, drop the sender
StopSignalled(e) ==
    [links EXCEPT ![e].shutdown = TRUE, ![e].sender = FALSE]

\* remote_connect: the lock and state_guard.take() (1554-1560)
ConnectTake ==
    /\ remote_call.op = "remote_connect" /\ remote_call.pc = "lock"
    /\ IF remote_client # None
         THEN /\ links' = StopSignalled(remote_client[1])
              /\ remote_call' = [remote_call EXCEPT !.pc = "join",
                                                    !.existing = remote_client]
         ELSE /\ remote_call' = [remote_call EXCEPT !.pc = "spawn"]
              /\ UNCHANGED links
    /\ remote_client' = None
    /\ UNCHANGED << status_events, send_result, calls, idleVars >>

\* remote_connect: handle.join.join() of the existing client returns (1476)
ConnectJoin ==
    /\ remote_call.op = "remote_connect" /\ remote_call.pc = "join"
    /\ links[remote_call.existing[1]].reader = "done"
    /\ remote_call' = [remote_call EXCEPT !.pc = "spawn"]
    /\ UNCHANGED << remote_client, links, status_events, send_result, calls,
                    idleVars >>

\* remote_connect: spawn_remote_client, the store and the status
\* (1561-1564); when set_read_timeout or try_clone fails (1485-1493) the
\* command returns the error, the stream is dropped and the state stays None
ConnectSpawn(spawned) ==
    /\ remote_call.op = "remote_connect" /\ remote_call.pc = "spawn"
    /\ LET k == remote_call.link[1] IN
         IF spawned
           THEN /\ links' = [links EXCEPT ![k].sender = TRUE,
                                          ![k].reader = "loop",
                                          ![k].writer = "running"]
                /\ remote_client' = Some(k)
                /\ status_events' =
                      Append(status_events,
                             StatusEvent("connected", None, links[k].address))
           ELSE /\ links' = [links EXCEPT ![k].peer = "dropped"]
                /\ UNCHANGED << remote_client, status_events >>
    /\ remote_call' = NoRemoteCall
    /\ UNCHANGED << send_result, calls, idleVars >>

\* remote_disconnect up to the join (1572-1578); with no connection stored
\* it returns Ok at once
DisconnectTake ==
    /\ CommandStarts
    /\ IF remote_client # None
         THEN /\ links' = StopSignalled(remote_client[1])
              /\ remote_call' = [op |-> "remote_disconnect", pc |-> "join",
                                 link |-> None, existing |-> remote_client]
         ELSE UNCHANGED << links, remote_call >>
    /\ remote_client' = None
    /\ UNCHANGED << status_events, send_result, idleVars >>

\* remote_disconnect: the join returns, the status is emitted (1476, 1579)
DisconnectJoin ==
    /\ remote_call.op = "remote_disconnect" /\ remote_call.pc = "join"
    /\ LET e == remote_call.existing[1] IN
         /\ links[e].reader = "done"
         /\ status_events' =
               Append(status_events,
                      StatusEvent("disconnected", None, links[e].address))
    /\ remote_call' = NoRemoteCall
    /\ UNCHANGED << remote_client, links, send_result, calls, idleVars >>

\* remote_send (1585-1606): a payload that is not an object is replaced by
\* the empty object; sender.send fails when the writer has dropped the
\* receiver
RemoteSend(payload) ==
    /\ CommandStarts
    /\ IF remote_client = None
         THEN /\ send_result' = Some([payload |-> payload, line |-> None,
                                      result |-> Err("Remote is not connected")])
              /\ UNCHANGED links
         ELSE LET k == remote_client[1]
                  safe_payload == IF payload.kind = "object" THEN payload
                                  ELSE JsonObject({})
                  built == build_remote_payload(safe_payload, links[k].token)
              IN  IF ~built.ok
                    THEN /\ send_result' = Some([payload |-> payload,
                                                 line |-> None, result |-> built])
                         /\ UNCHANGED links
                  ELSE IF links[k].writer # "running"
                    THEN /\ send_result' =
                            Some([payload |-> payload, line |-> None,
                                  result |-> Err("Failed to send remote payload")])
                         /\ UNCHANGED links
                  ELSE /\ send_result' = Some([payload |-> payload,
                                               line |-> Some(built.value),
                                               result |-> Ok("unit")])
                       /\ links' = [links EXCEPT ![k].queue =
                                       Append(@, built.value)]
    /\ UNCHANGED << remote_client, remote_call, status_events, idleVars >>

\* the reader thread finds the shutdown signal (1499-1501)
ReaderShutdown(k) ==
    /\ links[k].reader = "loop" /\ links[k].shutdown
    /\ links' = [links EXCEPT ![k].reader = "left",
                              ![k].left_by = Some("shutdown")]
    /\ UNCHANGED << remote_client, remote_call, status_events, send_result,
                    calls, idleVars >>

\* read_secure_line returns Ok(None): the hub closed the connection (1503)
ReaderEndOfStream(k) ==
    /\ links[k].reader = "loop" /\ links[k].peer = "closed"
    /\ links' = [links EXCEPT ![k].reader = "left",
                              ![k].left_by = Some("eof")]
    /\ UNCHANGED << remote_client, remote_call, status_events, send_result,
                    calls, idleVars >>

\* read_secure_line returns an error that is not a timeout (1521)
ReaderError(k) ==
    /\ links[k].reader = "loop" /\ links[k].peer = "reset"
    /\ links' = [links EXCEPT ![k].reader = "left",
                              ![k].left_by = Some("error")]
    /\ UNCHANGED << remote_client, remote_call, status_events, send_result,
                    calls, idleVars >>

\* the reader thread's end, as mutated: it reports only a loss by error
ReaderExit_errors_only(k) ==
    /\ links[k].reader = "left"
    /\ links' = [links EXCEPT ![k].reader = "done"]
    /\ status_events' =
          IF links[k].left_by = Some("error")
            THEN Append(status_events,
                        StatusEvent("disconnected", None, links[k].address))
            ELSE status_events
    /\ UNCHANGED << remote_client, remote_call, send_result, calls, idleVars >>

\* the reader thread after its loop (1524): the status, then the thread
\* ends and drops its stream
ReaderExit(k) ==
    /\ links[k].reader = "left"
    /\ links' = [links EXCEPT ![k].reader = "done"]
    /\ status_events' =
          Append(status_events,
                 StatusEvent("disconnected", None, links[k].address))
    /\ UNCHANGED << remote_client, remote_call, send_result, calls, idleVars >>

\* write_remote_lines takes a line and writes it (1049-1061); a write to a
\* connection the hub has left may still succeed, a failed one ends the
\* thread and drops the receiver with what it holds
ClientWrite(k, written) ==
    /\ links[k].writer = "running" /\ links[k].queue # << >>
    /\ written \/ links[k].peer # "open"
    /\ links' = IF written
                  THEN [links EXCEPT ![k].queue = Tail(@),
                                     ![k].written = Append(@, Head(links[k].queue))]
                  ELSE [links EXCEPT ![k].queue = << >>, ![k].writer = "done"]
    /\ UNCHANGED << remote_client, remote_call, status_events, send_result,
                    calls, idleVars >>

\* the receiver's iterator ends: the sender is dropped, the channel empty
ClientWriterEnd(k) ==
    /\ links[k].writer = "running" /\ links[k].queue = << >>
    /\ ~links[k].sender
    /\ links' = [links EXCEPT ![k].writer = "done"]
    /\ UNCHANGED << remote_client, remote_call, status_events, send_result,
                    calls, idleVars >>

\* the hub closes an established connection, or the connection breaks
PeerLeaves(k, how) ==
    /\ links[k].peer = "open" /\ how \in {"closed", "reset"}
    /\ links' = [links EXCEPT ![k].peer = how]
    /\ UNCHANGED << remote_client, remote_call, status_events, send_result,
                    calls, idleVars >>

ReaderStep(k) ==
    ReaderShutdown(k) \/ ReaderEndOfStream(k) \/ ReaderError(k) \/ ReaderExit(k)

InitClient == HubIdle /\ WalkIdle /\ LineIdle /\ MoreIdle

NextClient ==
    \/ \E address \in Addresses : ConnectFailed(address)
    \/ \E k \in Links, address \in Addresses, tok \in ClientTokens :
          ConnectOpened(k, address, tok)
    \/ ConnectTake
    \/ ConnectJoin
    \/ \E spawned \in BOOLEAN : ConnectSpawn(spawned)
    \/ DisconnectTake
    \/ DisconnectJoin
    \/ \E payload \in SendPayloads : RemoteSend(payload)
    \/ \E k \in Links : ReaderShutdown(k)
    \/ \E k \in Links : ReaderEndOfStream(k)
    \/ \E k \in Links : ReaderError(k)
    \/ \E k \in Links : ReaderExit(k)
    \/ \E k \in Links, written \in BOOLEAN : ClientWrite(k, written)
    \/ \E k \in Links : ClientWriterEnd(k)
    \/ \E k \in Links, how \in {"closed", "reset"} : PeerLeaves(k, how)

SpecClient == InitClient /\ [][NextClient]_vars

\* A reader thread that can take a step takes one: its read returns after
\* 200ms at the latest, and the loop then looks at the shutdown channel and
\* at the stream again.
FairSpecClient ==
    /\ InitClient /\ [][NextClient]_vars
    /\ \A k \in Links : WF_vars(ReaderStep(k))

\* connection k is established: the hub's end is open and the application
\* holds the socket
Established(k) == links[k].peer = "open" /\ StreamOpen(k)

\* C21 as stated: at most one outbound connection is live at any time;
\* remote_connect tears down the existing connection before the new one is
\* opened.
C21_Original == Cardinality({k \in Links : Established(k)}) <= 1

\* a step of remote_send: the command returns at once, emits no status and
\* leaves the stored connection in place
RemoteSendStep ==
    /\ calls' = calls + 1
    /\ remote_call' = NoRemoteCall
    /\ status_events' = status_events
    /\ remote_client' = remote_client
    /\ send_result' # None

\* C22 as stated: a payload that is not an object is rejected with an error
\* and nothing is queued; for an object the stored token is added under
\* `token` iff the payload has no such field, and a token of the payload
\* is never overwritten.
C22_Original ==
    [][RemoteSendStep =>
         LET r == send_result'[1] IN
           /\ r.payload.kind # "object" => ~r.result.ok /\ links' = links
           /\ (r.payload.kind = "object" /\ remote_client # None
                 /\ links[remote_client[1]].writer = "running")
              => LET k == remote_client[1]
                     has_token == \E p \in r.payload.map : p[1] = "token"
                     sent == JsonObject(
                        IF has_token \/ links[k].token = None
                          THEN r.payload.map
                          ELSE r.payload.map
                                 \cup {<< "token", links[k].token[1] >>})
                 IN  /\ r.result.ok
                     /\ links'[k].queue = Append(links[k].queue, JsonLine(sent))
      ]_vars

\* C23: when an outbound connection is lost (the stream ends, or a read
\* fails with an error that is not a timeout) its reader thread leaves the
\* loop and ends, and the step that ends it emits the status "disconnected"
\* with the connection's address.
C23_Disconnected ==
    /\ [][\A k \in Links :
            (links[k].reader = "left" /\ links'[k].reader = "done")
            => status_events' =
                  Append(status_events,
                         StatusEvent("disconnected", None, links[k].address))
         ]_vars
    /\ \A k \in Links :
          (links[k].reader = "loop" /\ links[k].peer \in {"closed", "reset"})
            ~> (links[k].reader = "done")

\* the hub closed the stored connection and its reader has reported it
C23_Witness ==
    \E k \in Links :
       /\ remote_client = Some(k)
       /\ links[k].left_by = Some("eof") /\ links[k].reader = "done"
       /\ ~links[k].shutdown
       /\ status_events # << >>
       /\ status_events[Len(status_events)] =
             StatusEvent("disconnected", None, links[k].address)

\* remote_status (1623-1633): the snapshot is read from the stored handle
remote_status ==
    [connected |-> remote_client # None,
     address |-> IF remote_client = None THEN None
                 ELSE links[remote_client[1]].address]

\* the hub closed connection k and the reader thread of k has ended
ClosedByRemote(k) ==
    /\ links[k].peer = "closed"
    /\ links[k].left_by = Some("eof") /\ links[k].reader = "done"

\* C40 as stated: after the remote side closed the connection and the
\* reader thread has exited, remote_status reports connected = false and
\* remote_send fails with the not-connected error and queues nothing.
C40_Original ==
    /\ [](\A k \in Links :
            (ClosedByRemote(k) /\ remote_client \in {None, Some(k)})
            => ~remote_status.connected)
    /\ [][\A k \in Links :
            (/\ ClosedByRemote(k) /\ remote_client \in {None, Some(k)}
             /\ RemoteSendStep)
            => /\ send_result'[1].result = Err("Remote is not connected")
               /\ links' = links
         ]_vars

(***************************************************************************)
(* Claims about the throttle and the progress cadence of run_scan.         *)
(***************************************************************************)
\* the loop body of run_scan runs for the entry the walk yielded
BodyStep == walk_pc = "body" /\ walk_pc' = "next"

\* C32 as stated: the processed counter grows by one for every visited
\* entry whatever the filters say, and with a throttle level other than Off
\* the walking thread sleeps each time the counter reaches a multiple of
\* every_entries, whether or not the entry at that count passed the
\* filters; with Off it never sleeps.
C32_Original ==
    [][BodyStep =>
         LET throttle == scan_args.config.throttle IN
           /\ processed' = processed + 1
           /\ sleeps' = IF /\ throttle # None
                           /\ processed' % throttle[1].every_entries = 0
                          THEN sleeps + 1 ELSE sleeps
      ]_vars

\* C33 as stated: after each visited entry, if processed mod emit_every is
\* 0 a compact snapshot is built and emitted as a Progress event, unless
\* its total byte count is below the total emitted before.
C33_Original ==
    [][(BodyStep /\ processed' % scan_args.config.emit_every = 0) =>
         LET summary == build_summary(scan_args.root, children',
                           files_by_parent', stats', largest_files',
                           scan_args.scan_id, TRUE, FALSE, Some(MAX_CHILDREN))
         IN  summary.total_bytes >= last_emitted_bytes
             => /\ events' = Append(events, ProgressEvent(summary))
                /\ last_emitted_bytes' = summary.total_bytes
      ]_vars


\* C31 as stated: a compact (progress) snapshot renders only the immediate
\* children of the root; the list has at most MAX_CHILDREN entries, which
\* are the first MAX_CHILDREN children in the order the walk yielded them,
\* presented sorted by name ascending.
C31_Original ==
    [][(/\ Len(events') = Len(events) + 1
        /\ events'[Len(events')].kind = "Progress")
         => LET rendered == events'[Len(events')].summary.root.children
                recorded == MapGet(children', scan_args.root, << >>)
                kept == Min(Len(recorded), MAX_CHILDREN)
            IN  /\ Len(rendered) = kept
                /\ \A i \in 1..Len(rendered) : rendered[i].children = << >>
                /\ {rendered[i].path : i \in 1..Len(rendered)}
                     = {get_path_string(recorded[i]) : i \in 1..kept}
                /\ \A i, j \in 1..Len(rendered) :
                      i < j => ~str_less(rendered[j].name, rendered[i].name)
      ]_vars


\* a later scan_path of the same window has registered a scan after scan s
\* (tasks are numbered in the order scan_path registers them)
Superseded(s) ==
    \E t \in LocalScans :
       t > s /\ task_pc[t] # "none" /\ task_label[t] = task_label[s]

\* C35 as stated: while a local scan is inside run_scan, its flag is not
\* set and no later scan of its window has been registered, the registry
\* entry of its window holds that scan's own flag, so that cancel_scan of
\* the window reaches it; also after an earlier, superseded scan of the
\* window has ended.
C35_Original ==
    \A s \in LocalScans :
       (task_pc[s] = "run_scan" /\ ~task_flag[s] /\ ~Superseded(s))
         => /\ task_label[s][1] \in DOMAIN cancellations
            /\ cancellations[task_label[s][1]] = s


(***************************************************************************)
(* Claims about the hub's scan slot, its cancel handle and its registry.   *)
(***************************************************************************)
\* the scans whose start_scan has returned true and whose thread has not
\* yet entered finish_scan
StartedScans == {s \in ScanIds : scan_pc[s] \in {"walk", "entry", "finish"}}

\* C34 as stated: whenever a hub scan is running (start_scan returned true,
\* its finish_scan has not started) the hub's cancel handle is that scan's
\* flag, whatever the interleaving of the previous scan's finish_scan with
\* this scan's start_scan.
C34_Original ==
    \A s \in StartedScans : scan_cancel = Some(s)


\* the wire forms of the terminal event of scan s
TerminalOf(s) ==
    {emit_to_remote(event, scan_id[s]) : event \in {"Complete", "Cancelled"}}

\* the events a broadcast carries; every other message in a channel is the
\* reply to a request of the channel's own connection
ScanEvents == {"scan-progress", "scan-complete", "scan-cancelled", "scan-error"}

\* The terminal event of scan s was queued to connection c before the reader
\* of c replied to one of c's requests: the channel of c holds it ahead of
\* that reply. The reader handles one request at a time, so every request
\* it reads after that reply was sent after the terminal event was queued.
ToldBeforeReply(c, s) ==
    \E i, j \in 1..Len(queue[c]) :
       /\ i < j
       /\ queue[c][i] \in TerminalOf(s)
       /\ queue[c][j].event \notin ScanEvents
       /\ \A k \in (j + 1)..Len(queue[c]) : queue[c][k] \notin TerminalOf(s)

\* C37 as stated: a scan request (of an existing path, with valid options)
\* that client c sends after the terminal event of scan s was queued to it
\* is not answered scan-in-progress while s is the scan that holds the slot
\* (s has emitted its terminal event and has not yet run finish_scan).
C37_Original ==
    [][\A c \in Conns, s \in ScanIds :
         (/\ scan_pc[s] = "finish" /\ ToldBeforeReply(c, s)
          /\ Dispatching(c, "scan") /\ conn'[c] = "reading"
          /\ cur[c].path = "exists" /\ cur[c].options = "valid")
           => ~(/\ Len(queue'[c]) = Len(queue[c]) + 1
                /\ queue'[c][Len(queue'[c])]
                     = send_remote_error(cur[c].id, "scan-in-progress"))
      ]_vars


\* Connection c has sent the hub no line at all: one line has been read so
\* far, and it was the scan request of another connection (whose id the
\* started scan carries).
SentNothing(c) ==
    /\ nreq = 1
    /\ \E s \in ScanIds : scan_id[s] # None /\ scan_id[s] # ReqId(c)

\* C36 as stated: when a token is configured, a connection that never sent
\* an authorized request (here: one that sent nothing) is queued no scan
\* event.
C36_Original ==
    \A c \in Conns :
       (token # None /\ SentNothing(c))
         => \A i \in 1..Len(queue[c]) : queue[c][i].event \notin ScanEvents


(***************************************************************************)
(* The read loop and a line that arrives in segments.                      *)
(***************************************************************************)
\* fill_buf gives up after the read timeout between two segments of a
\* line: the buffer and the socket hold no byte, the client has not closed
\* and has yet to send the rest, and neither the client nor the socket
\* moves in this step
TimeoutStep ==
    /\ read_pc = "reading"
    /\ buf = << >> /\ wire = << >> /\ ~eof
    /\ to_send # << >>
    /\ wire' = wire /\ eof' = eof /\ to_send' = to_send

\* C38 as stated: a line that arrives in segments with read timeouts
\* between them reaches the handler intact. Every line handed to the
\* handler is one of the client's lines, whole; and a read timeout loses no
\* byte that read_secure_line has taken from the stream.
C38_Original ==
    /\ [](\A i \in 1..Len(delivered) :
             \E j \in 1..Len(client_lines) : delivered[i] = client_lines[j])
    /\ [][TimeoutStep => (line' = line /\ total_read' = total_read)]_vars


(***************************************************************************)
(* The registry and the connections that have gone.                        *)
(***************************************************************************)
\* the client of connection c has closed it and the reader of c has
\* returned at the end of the stream
Disconnected(c) == peer_closed[c] /\ conn[c] = "closed"

\* the registered connections that have not disconnected
Counted == {c \in Conns : InClients(c) /\ ~Disconnected(c)}

\* C39 as stated, in the form a finite run decides: connections that have
\* disconnected do not count against MAX_CONNECTIONS, also when no scan has
\* broadcast since, so the accept loop admits a new connection whenever
\* fewer than MAX_CONNECTIONS registered connections are left that have not
\* disconnected.
C39_Original ==
    [][\A c \in Conns :
         (/\ conn[c] = "pending" /\ conn'[c] # "pending"
          /\ Cardinality(Counted) < MAX_CONNECTIONS)
           => conn'[c] = "spawned"
      ]_vars

=============================================================================
